---- MODULE Spec2Model ----
(***************************************************************************)
(* Event-sourced challenge sessions of curiouscore-ai: the game engine     *)
(* (apply_event and its handlers), the step handlers, the event store      *)
(* (append, snapshot, hydrate) and the session endpoints that drive them.  *)
(*                                                                         *)
(* Strings of the program are abstracted to small records:                 *)
(*   - a narration text is a sequence of tokens; "<metadata>" and          *)
(*     "</metadata>" are the markers, "{...}" tokens are JSON objects,     *)
(*     "[]" is valid JSON that is not an object, "{bad" is malformed JSON  *)
(*     and "txt" is prose;                                                 *)
(*   - an answer is a record [kind, val]: an integer <<i>>, a list of      *)
(*     integers, or a string of <<length>> characters;                     *)
(*   - wall-clock instants are integers.                                   *)
(***************************************************************************)
EXTENDS Integers, Sequences, FiniteSets, TLC

VARIABLES
    steps,      \* the challenge's steps, as load_challenge_steps returns them
    session,    \* the GameSession row: status, total_score, current_step_index
    log,        \* the game_events table: a set of rows
    snapshots,  \* the session_snapshots table: a set of rows
    now,        \* the wall clock
    reqs,       \* requests in flight (hydrated, not yet committed)
    est,        \* engine-level runs: the SessionState being folded
    last,       \* what the last operation was given and what it returned
    peer,       \* the GameSession row of a second session on the same tables
    progress,   \* progress validation: the configuration, the tracked state, the last call
    extraction  \* JSON extraction: the LLM response text and what the call returned

vars ==
    <<steps, session, log, snapshots, now, reqs, est, last, peer, progress,
      extraction>>

-----------------------------------------------------------------------------
(* Bounds of the model *)

MaxSeq == 6             \* requests are accepted while the latest sequence number is below this
MaxApplied == 3         \* engine-level runs apply at most this many events
MaxInFlight == 2        \* overlapping requests of one session
MaxHints == 1           \* hint requests are accepted while hints_used is below this
MaxConcSeq == 3         \* overlapping requests are accepted while the latest number is below this
MaxTwoSeq == 5          \* requests of two sessions are accepted while the latest number is below this

(* Program constants *)

SNAPSHOT_INTERVAL == 5
MaxAnswerLen == 5000
DefaultMaxPossibleScore == 100
SyntheticPoints == 100

SessionId == "s1"

-----------------------------------------------------------------------------
(* Step configuration (models.ChallengeStep) *)

Step(type, nopt, ca, cas, pp, thr, auto, simple) ==
    [step_type |-> type, options |-> nopt, correct_answer |-> ca,
     correct_answers |-> cas, points_possible |-> pp,
     passing_threshold |-> thr, auto_narrate |-> auto, simple |-> simple]

\* tests/test_game_engine.py sample_steps: MCQ, gate, true/false
ChallengeA ==
    << Step("MCQ_SINGLE", 2, 0, <<>>, 50, 100, FALSE, FALSE),
       Step("CONTINUE_GATE", 0, -1, <<>>, 0, 0, FALSE, FALSE),
       Step("TRUE_FALSE", 0, 1, <<>>, 50, 100, FALSE, FALSE) >>

\* a free-text step evaluated by the LEM, then a multi-select step
ChallengeB ==
    << Step("CHAT", 0, -1, <<>>, 50, 70, TRUE, FALSE),
       Step("MCQ_MULTI", 3, -1, <<0, 2>>, 40, 50, FALSE, FALSE) >>

\* a simple challenge: the synthetic step of load_challenge_steps
ChallengeSimple ==
    << Step("CHAT", 0, -1, <<>>, SyntheticPoints, 70, TRUE, TRUE) >>

\* a choice step worth no points, then a step type without a handler
ChallengeZero ==
    << Step("MCQ_SINGLE", 2, 0, <<>>, 0, 70, FALSE, FALSE),
       Step("FILE_UPLOAD", 0, -1, <<>>, 10, 70, FALSE, FALSE) >>

\* a single true/false question worth no points
ChallengeWarmup ==
    << Step("TRUE_FALSE", 0, 1, <<>>, 0, 100, FALSE, FALSE) >>

\* a single free-text step worth no points, evaluated by the LEM
ChallengeUnscored ==
    << Step("CHAT", 0, -1, <<>>, 0, 70, FALSE, FALSE) >>

Challenges ==
    {ChallengeA, ChallengeB, ChallengeSimple, ChallengeZero,
     ChallengeWarmup, ChallengeUnscored}

total_steps == Len(steps)

-----------------------------------------------------------------------------
(* Small helpers *)

Min(a, b) == IF a < b THEN a ELSE b
Max(a, b) == IF a > b THEN a ELSE b

RECURSIVE Insert(_, _)
Insert(x, s) ==
    IF s = <<>> THEN <<x>>
    ELSE IF x <= Head(s) THEN <<x>> \o s
    ELSE <<Head(s)>> \o Insert(x, Tail(s))

RECURSIVE sorted(_)
sorted(s) == IF s = <<>> THEN <<>> ELSE Insert(Head(s), sorted(Tail(s)))

RECURSIVE SumScores(_)
SumScores(ss) == IF ss = <<>> THEN 0 ELSE Head(ss).score + SumScores(Tail(ss))

\* index of the first occurrence of tok in s, 0 when absent (str.find)
RECURSIVE FindFrom(_, _, _)
FindFrom(s, tok, i) ==
    IF i > Len(s) THEN 0
    ELSE IF s[i] = tok THEN i
    ELSE FindFrom(s, tok, i + 1)

find(s, tok) == FindFrom(s, tok, 1)

-----------------------------------------------------------------------------
(* Answers, contents, messages *)

IntAnswer(i) == [kind |-> "int", val |-> <<i>>]
ListAnswer(l) == [kind |-> "list", val |-> l]
StrAnswer(n) == [kind |-> "str", val |-> <<n>>]
NoAnswer == [kind |-> "none", val |-> <<>>]

Content(kind, toks, nums) == [kind |-> kind, toks |-> toks, nums |-> nums]

NoMetadata == [kind |-> "none", nums |-> <<>>]

DisplayMessage(role, content, timestamp, metadata) ==
    [role |-> role, content |-> content, timestamp |-> timestamp,
     metadata |-> metadata]

StepScore(idx, score, maxp, passed) ==
    [step_index |-> idx, score |-> score, max_possible |-> maxp,
     passed |-> passed, attempts |-> 1]

NoUiData == [is_none |-> TRUE, options |-> 0, option_len |-> 0, progress |-> <<>>]

\* SessionState(session_id, challenge_id, user_id, status="created")
InitialState ==
    [status |-> "created", current_step_index |-> 0,
     current_ui_mode |-> "CHAT", current_ui_data |-> NoUiData,
     step_scores |-> <<>>, total_score |-> 0,
     max_possible_score |-> DefaultMaxPossibleScore,
     hints_used |-> 0, mistakes_count |-> 0, messages |-> <<>>,
     context_summary |-> "", flags |-> {}]

add_message(state, role, content, timestamp, metadata) ==
    [state EXCEPT !.messages =
        Append(@, DisplayMessage(role, content, timestamp, metadata))]

update_context_summary(state, summary) ==
    [state EXCEPT !.context_summary = summary]

\* a state with the wall-clock fields of its transcript blanked
StripTimestamps(state) ==
    [state EXCEPT !.messages =
        [i \in 1..Len(@) |-> [@[i] EXCEPT !.timestamp = 0]]]

-----------------------------------------------------------------------------
(* Events and LLM tasks *)

NoData ==
    [answer |-> NoAnswer, raw_score |-> 0, passed |-> FALSE,
     rationale |-> "", content |-> <<>>, step_index |-> 0]

Event(type, seq, ts, data) ==
    [event_type |-> type, session_id |-> SessionId, sequence_number |-> seq,
     timestamp |-> ts, data |-> data]

Task(type, idx) == [task_type |-> type, step_index |-> idx]

HandledTypes ==
    {"SESSION_CREATED", "SESSION_STARTED", "USER_SUBMITTED_ANSWER",
     "USER_CONTINUED", "USER_REQUESTED_HINT", "LEM_EVALUATED", "GM_NARRATED",
     "STEP_ENTERED", "SCORE_AWARDED"}

EventType ==
    HandledTypes \cup
    {"SESSION_COMPLETED", "SESSION_ABANDONED", "STEP_COMPLETED", "STEP_FAILED",
     "SCORE_DEDUCTED", "LLM_TASK_REQUESTED", "LLM_TASK_COMPLETED",
     "HINT_PROVIDED"}

-----------------------------------------------------------------------------
(* Step handlers *)

HandlerResult(raises, requires_lem, score, passed, feedback, advance, tasks) ==
    [raises |-> raises, requires_lem |-> requires_lem, score |-> score,
     passed |-> passed, feedback |-> feedback, advance_step |-> advance,
     llm_tasks |-> tasks]

NoFeedback == Content("none", <<>>, <<>>)

\* an uncaught exception inside a handler (ZeroDivisionError)
HandlerRaises == HandlerResult(TRUE, FALSE, 0, FALSE, NoFeedback, FALSE, <<>>)

\* (score / points_possible) >= (passing_threshold / 100) for points_possible # 0.
\* Both quotients are correctly rounded doubles of small integers, so the
\* comparison agrees with the exact one.
meets_threshold(score, points_possible, passing_threshold) ==
    score * 100 >= passing_threshold * points_possible

\* a validator that accepts every answer
mcq_accept_any(step, answer) == TRUE

mcq_validate_answer(step, answer) ==
    IF step.step_type \in {"MCQ_SINGLE", "TRUE_FALSE"}
    THEN /\ answer.kind = "int"
         /\ ~(step.options > 0 /\ (answer.val[1] < 0 \/ answer.val[1] >= step.options))
    ELSE IF step.step_type = "MCQ_MULTI"
    THEN /\ answer.kind = "list"
         /\ Len(answer.val) # 0
         /\ \A i \in 1..Len(answer.val) :
                ~(step.options > 0 /\ (answer.val[i] < 0 \/ answer.val[i] >= step.options))
    ELSE FALSE

check_answer(step, answer) ==
    IF step.step_type \in {"MCQ_SINGLE", "TRUE_FALSE"}
    THEN answer.val[1] = step.correct_answer
    ELSE IF step.step_type = "MCQ_MULTI"
    THEN sorted(step.correct_answers) = sorted(answer.val)
    ELSE FALSE

\* full points whatever was answered
mcq_score_generous(step, answer) == step.points_possible

mcq_score(step, answer) ==
    IF check_answer(step, answer) THEN step.points_possible ELSE 0

mcq_handle_submission(step, answer, state) ==
    IF ~mcq_validate_answer(step, answer)
    THEN HandlerResult(FALSE, FALSE, 0, FALSE,
                       Content("invalid", <<>>, <<>>), FALSE, <<>>)
    ELSE LET score == mcq_score(step, answer) IN
         IF step.points_possible = 0
         THEN HandlerRaises
         ELSE LET passed == meets_threshold(score, step.points_possible,
                                            step.passing_threshold) IN
              HandlerResult(FALSE, FALSE, score, passed,
                  Content(IF check_answer(step, answer) THEN "correct" ELSE "incorrect",
                          <<>>, <<score, step.points_possible>>),
                  passed, <<>>)

\* numbers are converted with str(); lists are rejected
chat_validate_answer(step, answer) ==
    /\ answer.kind \in {"int", "str"}
    /\ answer.kind = "str" => (answer.val[1] # 0 /\ answer.val[1] <= MaxAnswerLen)

chat_handle_submission(step, answer, state) ==
    IF ~chat_validate_answer(step, answer)
    THEN HandlerResult(FALSE, FALSE, 0, FALSE,
                       Content("invalid", <<>>, <<>>), FALSE, <<>>)
    ELSE IF step.simple
    THEN HandlerResult(FALSE, FALSE, 0, FALSE, NoFeedback, FALSE,
                       << Task("GM_NARRATE", state.current_step_index) >>)
    ELSE HandlerResult(FALSE, TRUE, 0, FALSE, NoFeedback, FALSE,
                       << Task("LEM_EVALUATE", state.current_step_index) >>)

gate_handle_submission(step, answer, state) ==
    HandlerResult(FALSE, FALSE, 0, TRUE, NoFeedback, TRUE, <<>>)

\* a lookup that finds a handler for every step type
HasSomeHandler(step_type) == TRUE

HasHandler(step_type) ==
    step_type \in {"MCQ_SINGLE", "MCQ_MULTI", "TRUE_FALSE", "CHAT", "CONTINUE_GATE"}

get_handler_for_step_type(step, answer, state) ==
    IF step.step_type \in {"MCQ_SINGLE", "MCQ_MULTI", "TRUE_FALSE"}
    THEN mcq_handle_submission(step, answer, state)
    ELSE IF step.step_type = "CHAT"
    THEN chat_handle_submission(step, answer, state)
    ELSE gate_handle_submission(step, answer, state)

-----------------------------------------------------------------------------
(* Game engine *)

EngineResult(ok, error, new_state, derived, tasks) ==
    [ok |-> ok, error |-> error, new_state |-> new_state,
     derived_events |-> derived, llm_tasks |-> tasks]

\* the call raised: no result is returned
Raise(error, state) == EngineResult(FALSE, error, state, <<>>, <<>>)

CurrentStep(state) == steps[state.current_step_index + 1]

is_last_step(state) == state.current_step_index = total_steps - 1

\* the entry appended, max_possible added to the total
award_score_unsummed(state, score, max_possible, passed) ==
    [state EXCEPT
        !.step_scores = Append(@, StepScore(state.current_step_index, score,
                                            max_possible, passed)),
        !.total_score = @ + max_possible]

\* step_scores.append(StepScore(...)); total_score += score
award_score(state, score, max_possible, passed) ==
    [state EXCEPT
        !.step_scores = Append(@, StepScore(state.current_step_index, score,
                                            max_possible, passed)),
        !.total_score = @ + score]

\* current_step_index += 1; current_ui_mode = next_step.step_type
advance_to_next_step(state) ==
    [state EXCEPT
        !.current_step_index = @ + 1,
        !.current_ui_mode = steps[state.current_step_index + 2].step_type]

handle_session_created(state, event, utcnow) ==
    EngineResult(TRUE, "", state, <<>>, <<>>)

\* a start that enters step 0 without deriving an event or asking for narration
handle_session_started_quietly(state, event, utcnow) ==
    EngineResult(TRUE, "",
        [state EXCEPT !.status = "active",
                      !.current_step_index = 0,
                      !.current_ui_mode = steps[1].step_type],
        <<>>, <<>>)

handle_session_started(state, event, utcnow) ==
    LET first_step == steps[1]
        new_state ==
            update_context_summary(
                [state EXCEPT !.status = "active",
                              !.current_step_index = 0,
                              !.current_ui_mode = first_step.step_type],
                "Starting challenge")
        derived ==
            << Event("STEP_ENTERED", event.sequence_number + 1, utcnow,
                     [NoData EXCEPT !.step_index = 0]) >>
        tasks == IF first_step.auto_narrate
                 THEN << Task("GM_NARRATE", 0) >> ELSE <<>>
    IN  EngineResult(TRUE, "", new_state, derived, tasks)

\* the text shown for the learner's answer: the option text when a simple
\* challenge is in MCQ mode and the index is in range, else str(answer)
display_content(state, answer) ==
    IF /\ state.current_ui_mode = "MCQ_SINGLE"
       /\ ~state.current_ui_data.is_none
       /\ answer.kind = "int"
       /\ 0 <= answer.val[1]
       /\ answer.val[1] < state.current_ui_data.options
    THEN Content("option", <<>>, answer.val)
    ELSE Content(answer.kind, <<>>, answer.val)

\* the option text replaces the index for a CHAT step in MCQ mode
handler_answer(state, step, answer) ==
    IF /\ step.step_type = "CHAT"
       /\ state.current_ui_mode = "MCQ_SINGLE"
       /\ ~state.current_ui_data.is_none
       /\ answer.kind = "int"
       /\ 0 <= answer.val[1]
       /\ answer.val[1] < state.current_ui_data.options
    THEN StrAnswer(state.current_ui_data.option_len)
    ELSE answer

handle_user_submission(state, event, utcnow) ==
    LET step == CurrentStep(state)
        answer == event.data.answer
        with_user == add_message(state, "user", display_content(state, answer),
                                 event.timestamp, NoMetadata)
    IN  IF ~HasHandler(step.step_type)
        THEN Raise("ValueError: No handler found for step type", state)
        ELSE
        LET result == get_handler_for_step_type(
                          step, handler_answer(state, step, answer), with_user)
        IN  IF result.raises
            THEN Raise("ZeroDivisionError", state)
            ELSE IF result.requires_lem
            THEN EngineResult(TRUE, "", with_user, <<>>, result.llm_tasks)
            ELSE
            LET scored == award_score(with_user, result.score,
                                      step.points_possible, result.passed)
                with_feedback ==
                    IF result.feedback.kind # "none"
                    THEN add_message(scored, "gm", result.feedback, utcnow,
                                     NoMetadata)
                    ELSE scored
                new_state ==
                    IF result.advance_step
                    THEN IF is_last_step(state)
                         THEN [with_feedback EXCEPT
                                  !.status = "completed",
                                  !.current_ui_mode = "COMPLETED"]
                         ELSE advance_to_next_step(with_feedback)
                    ELSE with_feedback
            IN  EngineResult(TRUE, "", new_state, <<>>, result.llm_tasks)

\* a continue handler that steps on without looking at the number of steps
handle_user_continued_unbounded(state, event, utcnow) ==
    EngineResult(TRUE, "", [state EXCEPT !.current_step_index = @ + 1],
                 <<>>, <<>>)

handle_user_continued(state, event, utcnow) ==
    LET new_state ==
            IF state.current_step_index < total_steps - 1
            THEN advance_to_next_step(state)
            ELSE state
    IN  EngineResult(TRUE, "", new_state, <<>>, <<>>)

\* a hint handler that counts the hint and asks the LLM for nothing
handle_hint_request_stub(state, event, utcnow) ==
    EngineResult(TRUE, "", [state EXCEPT !.hints_used = @ + 1], <<>>, <<>>)

handle_hint_request(state, event, utcnow) ==
    EngineResult(TRUE, "", [state EXCEPT !.hints_used = @ + 1], <<>>,
                 << Task("TEACH_HINTS", state.current_step_index) >>)

\* max(0, min(raw_score, step.points_possible))
clamp_score(raw_score, points_possible) ==
    Max(0, Min(raw_score, points_possible))

\* an evaluation handler that takes the event's passed field as the verdict
handle_lem_result_trusting(state, event, utcnow) ==
    LET step == CurrentStep(state)
        clamped_score == clamp_score(event.data.raw_score, step.points_possible)
    IN  IF step.points_possible = 0
        THEN Raise("ZeroDivisionError", state)
        ELSE
        LET passed == event.data.passed
            scored == award_score(state, clamped_score, step.points_possible,
                                  passed)
            with_feedback ==
                add_message(scored, "gm",
                            Content("rationale", <<event.data.rationale>>, <<>>),
                            utcnow,
                            [kind |-> "score",
                             nums |-> <<clamped_score, step.points_possible>>])
            new_state ==
                IF passed
                THEN IF state.current_step_index < total_steps - 1
                     THEN advance_to_next_step(with_feedback)
                     ELSE [with_feedback EXCEPT !.status = "completed"]
                ELSE with_feedback
        IN  EngineResult(TRUE, "", new_state, <<>>, <<>>)

handle_lem_result(state, event, utcnow) ==
    LET step == CurrentStep(state)
        clamped_score == clamp_score(event.data.raw_score, step.points_possible)
    IN  IF step.points_possible = 0
        THEN Raise("ZeroDivisionError", state)
        ELSE
        LET passed == meets_threshold(clamped_score, step.points_possible,
                                      step.passing_threshold)
            scored == award_score(state, clamped_score, step.points_possible,
                                  passed)
            with_feedback ==
                add_message(scored, "gm",
                            Content("rationale", <<event.data.rationale>>, <<>>),
                            utcnow,
                            [kind |-> "score",
                             nums |-> <<clamped_score, step.points_possible>>])
            new_state ==
                IF passed
                THEN IF state.current_step_index < total_steps - 1
                     THEN advance_to_next_step(with_feedback)
                     ELSE [with_feedback EXCEPT !.status = "completed"]
                ELSE with_feedback
        IN  EngineResult(TRUE, "", new_state, <<>>, <<>>)

-----------------------------------------------------------------------------
(* GM narration and the embedded metadata block *)

OpenMarker == "<metadata>"
CloseMarker == "</metadata>"

\* the JSON texts of the model and what json.loads returns for them
JsonObjects == {"{mcq}", "{mcq_blank}", "{text}", "{upload}", "{q2of5}"}
JsonNonObjects == {"[]"}

\* options: how many option texts the block lists; option_len: their length
\* ("{mcq_blank}" lists two empty strings)
MetaObject(tok) ==
    CASE tok = "{mcq}"    -> [questionType |-> "mcq", options |-> 2, option_len |-> 1,
                              progress |-> <<>>]
      [] tok = "{mcq_blank}" -> [questionType |-> "mcq", options |-> 2, option_len |-> 0,
                                 progress |-> <<>>]
      [] tok = "{text}"   -> [questionType |-> "text", options |-> 0, option_len |-> 0,
                              progress |-> <<>>]
      [] tok = "{upload}" -> [questionType |-> "upload", options |-> 0, option_len |-> 0,
                              progress |-> <<>>]
      [] OTHER            -> [questionType |-> "text", options |-> 0, option_len |-> 0,
                              progress |-> <<2, 5, 40>>]

\* "object": a dict; "other": valid JSON of another type; "error": JSONDecodeError
json_loads(meta_raw) ==
    IF Len(meta_raw) = 1 /\ meta_raw[1] \in JsonObjects THEN "object"
    ELSE IF Len(meta_raw) = 1 /\ meta_raw[1] \in JsonNonObjects THEN "other"
    ELSE "error"

has_markers(gm_content) ==
    find(gm_content, OpenMarker) # 0 /\ find(gm_content, CloseMarker) # 0

\* gm_content[start + 10:end]
meta_raw_of(gm_content) ==
    LET start == find(gm_content, OpenMarker)
        end == find(gm_content, CloseMarker)
    IN  IF end > start THEN SubSeq(gm_content, start + 1, end - 1) ELSE <<>>

\* (gm_content[:start] + gm_content[end + 11:]).strip()
strip_block(gm_content) ==
    LET start == find(gm_content, OpenMarker)
        end == find(gm_content, CloseMarker)
    IN  SubSeq(gm_content, 1, start - 1) \o SubSeq(gm_content, end + 1, Len(gm_content))

ui_mode_for(question_type, current) ==
    CASE question_type = "mcq"    -> "MCQ_SINGLE"
      [] question_type = "text"   -> "CHAT"
      [] question_type = "upload" -> "FILE_UPLOAD"
      [] OTHER                    -> current

\* ui_data if ui_data else None
ui_data_for(meta) ==
    LET options == IF meta.questionType = "mcq" THEN meta.options ELSE 0
    IN  IF options = 0 /\ meta.progress = <<>>
        THEN NoUiData
        ELSE [is_none |-> FALSE, options |-> options,
              option_len |-> IF options > 0 THEN meta.option_len ELSE 0,
              progress |-> meta.progress]

handle_gm_narration(state, event, utcnow) ==
    LET gm_content == event.data.content IN
    IF ~has_markers(gm_content)
    THEN EngineResult(TRUE, "",
             add_message(state, "gm", Content("text", gm_content, <<>>),
                         event.timestamp, NoMetadata), <<>>, <<>>)
    ELSE
    LET meta_raw == meta_raw_of(gm_content)
        shown == Content("text", strip_block(gm_content), <<>>)
        parsed == json_loads(meta_raw)
    IN  IF parsed = "other"
        THEN Raise("AttributeError: object has no attribute 'get'", state)
        ELSE IF parsed = "error"
        THEN EngineResult(TRUE, "",
                 add_message(state, "gm", shown, event.timestamp, NoMetadata),
                 <<>>, <<>>)
        ELSE
        LET meta == MetaObject(meta_raw[1])
            switched ==
                [state EXCEPT
                    !.current_ui_mode = ui_mode_for(meta.questionType, @),
                    !.current_ui_data = ui_data_for(meta)]
        IN  EngineResult(TRUE, "",
                add_message(switched, "gm", shown, event.timestamp,
                            [kind |-> meta_raw[1], nums |-> <<>>]),
                <<>>, <<>>)

\* a STEP_ENTERED handler that asks again for the narration of the step
handle_step_entered_narrating(state, event, utcnow) ==
    EngineResult(TRUE, "", state, <<>>,
                 << Task("GM_NARRATE", state.current_step_index) >>)

handle_step_entered(state, event, utcnow) ==
    EngineResult(TRUE, "", state, <<>>, <<>>)

handle_score_awarded(state, event, utcnow) ==
    EngineResult(TRUE, "", state, <<>>, <<>>)

\* a dispatcher that ignores the event types it has no handler for
apply_event_lenient(state, event, utcnow) ==
    CASE event.event_type = "SESSION_CREATED" -> handle_session_created(state, event, utcnow)
      [] event.event_type = "SESSION_STARTED" -> handle_session_started(state, event, utcnow)
      [] event.event_type = "USER_SUBMITTED_ANSWER" -> handle_user_submission(state, event, utcnow)
      [] event.event_type = "USER_CONTINUED" -> handle_user_continued(state, event, utcnow)
      [] event.event_type = "USER_REQUESTED_HINT" -> handle_hint_request(state, event, utcnow)
      [] event.event_type = "LEM_EVALUATED" -> handle_lem_result(state, event, utcnow)
      [] event.event_type = "GM_NARRATED" -> handle_gm_narration(state, event, utcnow)
      [] event.event_type = "STEP_ENTERED" -> handle_step_entered(state, event, utcnow)
      [] event.event_type = "SCORE_AWARDED" -> handle_score_awarded(state, event, utcnow)
      [] OTHER -> EngineResult(TRUE, "", state, <<>>, <<>>)

\* utcnow is the wall clock read by datetime.utcnow() during the call
apply_event(state, event, utcnow) ==
    CASE event.event_type = "SESSION_CREATED" -> handle_session_created(state, event, utcnow)
      [] event.event_type = "SESSION_STARTED" -> handle_session_started(state, event, utcnow)
      [] event.event_type = "USER_SUBMITTED_ANSWER" -> handle_user_submission(state, event, utcnow)
      [] event.event_type = "USER_CONTINUED" -> handle_user_continued(state, event, utcnow)
      [] event.event_type = "USER_REQUESTED_HINT" -> handle_hint_request(state, event, utcnow)
      [] event.event_type = "LEM_EVALUATED" -> handle_lem_result(state, event, utcnow)
      [] event.event_type = "GM_NARRATED" -> handle_gm_narration(state, event, utcnow)
      [] event.event_type = "STEP_ENTERED" -> handle_step_entered(state, event, utcnow)
      [] event.event_type = "SCORE_AWARDED" -> handle_score_awarded(state, event, utcnow)
      [] OTHER -> Raise("ValueError: Unknown event type", state)

\* Objects and copies.  The list fields are objects that append changes in
\* place; every other write of a handler rebinds an attribute of its
\* working state.
InPlaceFields == {"messages", "step_scores"}

\* state.model_copy(): the copy holds the original's list objects
model_copy_shallow == InPlaceFields

\* state.model_copy(deep=True): the list fields of the copy that are still
\* the original's objects
model_copy_deep == {}

\* the list fields of the handler's working state that are the input's own
\* objects: the six handlers that write work on a copy, the others return
\* the input itself
shared_with_input(event_type) ==
    IF event_type \in {"SESSION_STARTED", "USER_SUBMITTED_ANSWER",
                       "USER_CONTINUED", "USER_REQUESTED_HINT",
                       "LEM_EVALUATED", "GM_NARRATED"}
    THEN model_copy_deep
    ELSE InPlaceFields

\* the handler's working state when the call ends: the state it returns, or
\* what it had written when it raised (a submission has appended the user's
\* message by then; the other raises come before any append)
working_state(state, event, utcnow) ==
    CHOOSE working \in
        {IF result.ok THEN result.new_state
         ELSE IF event.event_type = "USER_SUBMITTED_ANSWER"
         THEN add_message(state, "user", display_content(state, event.data.answer),
                          event.timestamp, NoMetadata)
         ELSE state :
             result \in {apply_event(state, event, utcnow)}} : TRUE

\* the value of the object passed in, read after the call
input_after(state, event, utcnow) ==
    CHOOSE after \in
        {[state EXCEPT
             !.messages = IF "messages" \in shared_with_input(event.event_type)
                          THEN working.messages ELSE @,
             !.step_scores = IF "step_scores" \in shared_with_input(event.event_type)
                             THEN working.step_scores ELSE @] :
             working \in {working_state(state, event, utcnow)}} : TRUE

-----------------------------------------------------------------------------
(* Event store *)

\* a GameEvent row; id stands for the uuid primary key
GameEvent(id, type, data, seq, created_at) ==
    [id |-> id, session_id |-> SessionId, event_type |-> type,
     event_data |-> data, sequence_number |-> seq, created_at |-> created_at]

\* a SessionSnapshot row
SessionSnapshot(id, state, seq) ==
    [id |-> id, session_id |-> SessionId, snapshot_data |-> state,
     event_sequence |-> seq]

should_create_snapshot(current_sequence) ==
    current_sequence = 0 \/ current_sequence % SNAPSHOT_INTERVAL = 0

\* ORDER BY event_sequence DESC LIMIT 1: the rows the query may return
get_latest_snapshot(snaps) ==
    {r \in snaps : r.session_id = SessionId
                   /\ \A o \in snaps : o.session_id = SessionId
                                        => o.event_sequence <= r.event_sequence}

\* the sequences that hold every row of rs once, in ascending sequence_number
RECURSIVE Orderings(_)
Orderings(rs) ==
    IF rs = {} THEN {<<>>}
    ELSE LET firsts == {r \in rs : \A o \in rs : r.sequence_number <= o.sequence_number}
         IN  UNION {{<<r>> \o rest : rest \in Orderings(rs \ {r})} : r \in firsts}

\* the same query without its session_id condition
get_events_of_all_sessions(rows, since_sequence) ==
    Orderings({r \in rows : r.sequence_number > since_sequence})

\* WHERE sequence_number > since ORDER BY sequence_number: the possible results
get_events_since(rows, since_sequence) ==
    Orderings({r \in rows : r.session_id = SessionId
                            /\ r.sequence_number > since_sequence})

Hydrated(ok, state, latest_sequence) ==
    [ok |-> ok, state |-> state, latest_sequence |-> latest_sequence]

\* the replay loop of hydrate_state; a raise leaves the loop
RECURSIVE replay(_, _, _)
replay(state, events, utcnow) ==
    IF events = <<>> THEN [ok |-> TRUE, state |-> state]
    ELSE LET row == Head(events) IN
         CHOOSE folded \in
             {IF result.ok
              THEN replay(result.new_state, Tail(events), utcnow)
              ELSE [ok |-> FALSE, state |-> state] :
                  result \in {apply_event(state,
                                  Event(row.event_type, row.sequence_number,
                                        row.created_at, row.event_data),
                                  utcnow)}} : TRUE

\* a hydration that swallows a raise of the replay loop and returns the
\* state folded so far
hydrate_partial(state, since_sequence, events, utcnow) ==
    CHOOSE hydrated \in
        {Hydrated(TRUE, folded.state,
                  IF events # <<>> THEN events[Len(events)].sequence_number
                  ELSE since_sequence) :
             folded \in {replay(state, events, utcnow)}} : TRUE

\* state, since_sequence: the latest snapshot, or the initial state and -1;
\* events: the result of get_events_since
hydrate_from(state, since_sequence, events, utcnow) ==
    CHOOSE hydrated \in
        {Hydrated(folded.ok, folded.state,
                  IF events # <<>> THEN events[Len(events)].sequence_number
                  ELSE since_sequence) :
             folded \in {replay(state, events, utcnow)}} : TRUE

\* where hydration starts: the latest snapshot, or the initial state at -1
hydrate_starts(snaps) ==
    IF get_latest_snapshot(snaps) = {}
    THEN {[state |-> InitialState, since_sequence |-> -1]}
    ELSE {[state |-> snap.snapshot_data, since_sequence |-> snap.event_sequence] :
              snap \in get_latest_snapshot(snaps)}

\* every result hydrate_state may return on the given tables
hydrate_state(rows, snaps, utcnow) ==
    UNION {{hydrate_from(start.state, start.since_sequence, events, utcnow) :
                events \in get_events_since(rows, start.since_sequence)} :
           start \in hydrate_starts(snaps)}

\* replay of the whole log from the initial state, ignoring snapshots
replay_from_zero(rows, utcnow) ==
    {hydrate_from(InitialState, -1, events, utcnow) :
         events \in get_events_since(rows, -1)}

-----------------------------------------------------------------------------
(* LLM task execution (session_endpoints.execute_llm_tasks) *)

\* what the LLM does in one request: the provider call fails, or it returns
\* text (narration, hint) or an evaluation (raw_score, passed)
LlmOutcome(fails, text, raw_score, passed) ==
    [fails |-> fails, text |-> text, raw_score |-> raw_score, passed |-> passed]

GmEvent(content, utcnow) ==
    Event("GM_NARRATED", 0, utcnow, [NoData EXCEPT !.content = content])

LemEvent(raw_score, passed, rationale, step_index, utcnow) ==
    Event("LEM_EVALUATED", 0, utcnow,
          [NoData EXCEPT !.raw_score = raw_score, !.passed = passed,
                         !.rationale = rationale, !.step_index = step_index])

Executed(ok, state, events) == [ok |-> ok, state |-> state, events |-> events]

\* the event a task builds from the LLM's answer
task_event(task, llm, utcnow) ==
    CASE task.task_type = "GM_NARRATE" -> GmEvent(llm.text, utcnow)
      [] task.task_type = "TEACH_HINTS" -> GmEvent(<<"hint">> \o llm.text, utcnow)
      [] OTHER -> LemEvent(llm.raw_score, llm.passed, "rationale",
                           task.step_index, utcnow)

\* the event a task's except branch builds
task_fallback_event(task, utcnow) ==
    IF task.task_type = "LEM_EVALUATE"
    THEN LemEvent(0, FALSE, "Evaluation Error", task.step_index, utcnow)
    ELSE GmEvent(<<"warning">>, utcnow)

\* the same call without the except branch: a failing call ends the request
execute_without_fallback(state, llm_fails, event, fallback, utcnow) ==
    IF llm_fails THEN Executed(FALSE, state, <<>>)
    ELSE CHOOSE executed \in
             {Executed(result.ok, result.new_state, <<event>>) :
                  result \in {apply_event(state, event, utcnow)}} : TRUE

\* try: call the LLM, build the event, append it to the list, apply it;
\* except: append and apply the fallback event (a raise there is not caught)
execute_with_fallback(state, llm_fails, event, fallback, utcnow) ==
    LET first_event == IF llm_fails THEN fallback ELSE event IN
    CHOOSE executed \in
        {IF result.ok THEN Executed(TRUE, result.new_state, <<first_event>>)
         ELSE IF llm_fails THEN Executed(FALSE, state, <<first_event>>)
         ELSE CHOOSE recovered \in
                  {Executed(after.ok, after.new_state, <<event, fallback>>) :
                       after \in {apply_event(state, fallback, utcnow)}} : TRUE :
             result \in {apply_event(state, first_event, utcnow)}} : TRUE

execute_llm_task(task, state, llm, utcnow) ==
    IF task.task_type \in {"GM_NARRATE", "TEACH_HINTS", "LEM_EVALUATE"}
    THEN execute_with_fallback(state, llm.fails, task_event(task, llm, utcnow),
                               task_fallback_event(task, utcnow), utcnow)
    ELSE Executed(TRUE, state, <<>>)

\* for task in tasks: ...; current_state = result.new_state
RECURSIVE execute_llm_tasks(_, _, _, _)
execute_llm_tasks(tasks, state, llm, utcnow) ==
    IF tasks = <<>> THEN Executed(TRUE, state, <<>>)
    ELSE CHOOSE executed \in
             {IF ~first.ok THEN first
              ELSE CHOOSE all \in
                       {Executed(rest.ok, rest.state, first.events \o rest.events) :
                            rest \in {execute_llm_tasks(Tail(tasks), first.state,
                                                        llm, utcnow)}} : TRUE :
                  first \in {execute_llm_task(Head(tasks), state, llm, utcnow)}} : TRUE

-----------------------------------------------------------------------------
(* Session endpoints *)

\* one append_and_snapshot call: the event, its number, the state handed over
Write(event, sequence_number, state) ==
    [event |-> event, sequence_number |-> sequence_number, state |-> state]

\* the appends numbered from event.sequence_number + 2
llm_writes_from_one(llm_events, event_seq, updated_state) ==
    [i \in 1..Len(llm_events) |->
        Write(llm_events[i], event_seq + 1 + i, updated_state)]

\* the appends of the LLM-result events: event.sequence_number + 1 + idx
llm_writes(llm_events, event_seq, updated_state) ==
    [i \in 1..Len(llm_events) |->
        Write(llm_events[i], event_seq + 1 + (i - 1), updated_state)]

\* what a request hands to the database and returns: outcome "ok" commits,
\* "error" is an uncaught exception (nothing is committed)
Response(outcome, writes, sess, pre, post, events) ==
    [outcome |-> outcome, writes |-> writes, session |-> sess,
     pre |-> pre, post |-> post, events |-> events]

Failed(sess, hyd) == Response("error", <<>>, sess, hyd.state, hyd.state, <<>>)

UserEvent(type, hyd, answer, utcnow) ==
    Event(type, hyd.latest_sequence + 1, utcnow,
          [NoData EXCEPT !.answer = answer,
                         !.step_index = hyd.state.current_step_index])

\* start_session after apply_event: persist the event, run the LLM tasks,
\* persist their events, update the session row
start_persist(sess, hyd, event, result, llm, utcnow) ==
    LET started == [sess EXCEPT !.status = "active",
                                !.current_step_index =
                                    result.new_state.current_step_index]
    IN  IF result.llm_tasks # <<>>
        THEN CHOOSE response \in
                 {Response("ok",
                      <<Write(event, event.sequence_number, result.new_state)>>
                          \o llm_writes(executed.events, event.sequence_number,
                                        executed.state),
                      started, hyd.state, executed.state,
                      <<event>> \o executed.events) :
                  executed \in {execute_llm_tasks(result.llm_tasks,
                                                  result.new_state, llm, utcnow)}} : TRUE
        ELSE Response("ok",
                 <<Write(event, event.sequence_number, result.new_state)>>,
                 started, hyd.state, result.new_state, <<event>>)

start_session(sess, hyd, llm, utcnow) ==
    IF ~hyd.ok THEN Failed(sess, hyd) ELSE
    LET event == UserEvent("SESSION_STARTED", hyd, NoAnswer, utcnow) IN
    CHOOSE response \in
        {start_persist(sess, hyd, event, result, llm, utcnow) :
             result \in {apply_event(hyd.state, event, utcnow)}} : TRUE

\* submit_attempt after apply_event; the session row is updated only in the
\* branch that runs LLM tasks
attempt_persist(sess, hyd, event, handler_result, engine_result, llm, utcnow) ==
    IF ~engine_result.ok THEN Failed(sess, hyd) ELSE
    IF handler_result.llm_tasks # <<>>
    THEN CHOOSE response \in
             {IF ~executed.ok THEN Failed(sess, hyd) ELSE
              Response("ok",
                  <<Write(event, event.sequence_number, engine_result.new_state)>>
                      \o llm_writes(executed.events, event.sequence_number,
                                    executed.state),
                  [sess EXCEPT
                      !.total_score = executed.state.total_score,
                      !.current_step_index = executed.state.current_step_index,
                      !.status = IF executed.state.status = "completed"
                                 THEN "completed" ELSE @],
                  hyd.state, executed.state, <<event>> \o executed.events) :
              executed \in {execute_llm_tasks(handler_result.llm_tasks,
                                              engine_result.new_state,
                                              llm, utcnow)}} : TRUE
    ELSE Response("ok",
             <<Write(event, event.sequence_number, engine_result.new_state)>>,
             sess, hyd.state, engine_result.new_state, <<event>>)

submit_attempt(sess, hyd, answer, llm, utcnow) ==
    IF ~hyd.ok THEN Failed(sess, hyd) ELSE
    IF ~HasHandler(CurrentStep(hyd.state).step_type) THEN Failed(sess, hyd) ELSE
    LET event == UserEvent("USER_SUBMITTED_ANSWER", hyd, answer, utcnow) IN
    CHOOSE response \in
        {IF handler_result.raises THEN Failed(sess, hyd)
         ELSE CHOOSE persisted \in
                  {attempt_persist(sess, hyd, event, handler_result,
                                   engine_result, llm, utcnow) :
                       engine_result \in {apply_event(hyd.state, event, utcnow)}} :
                  TRUE :
             handler_result \in {get_handler_for_step_type(
                                     CurrentStep(hyd.state), answer, hyd.state)}} :
        TRUE

submit_action_continue(sess, hyd, utcnow) ==
    IF ~hyd.ok THEN Failed(sess, hyd) ELSE
    LET event == UserEvent("USER_CONTINUED", hyd, NoAnswer, utcnow) IN
    CHOOSE response \in
        {Response("ok",
             <<Write(event, event.sequence_number, result.new_state)>>,
             [sess EXCEPT
                 !.current_step_index = result.new_state.current_step_index,
                 !.status = IF result.new_state.status = "completed"
                            THEN "completed" ELSE @],
             hyd.state, result.new_state, <<event>>) :
         result \in {apply_event(hyd.state, event, utcnow)}} : TRUE

\* the hint branch after apply_event: nothing of the session row is updated
hint_persist(sess, hyd, event, result, llm, utcnow) ==
    CHOOSE response \in
        {Response("ok",
             <<Write(event, event.sequence_number, result.new_state)>>
                 \o llm_writes(executed.events, event.sequence_number,
                               executed.state),
             sess, hyd.state, executed.state, <<event>> \o executed.events) :
         executed \in {execute_llm_tasks(result.llm_tasks, result.new_state,
                                         llm, utcnow)}} : TRUE

submit_action_hint(sess, hyd, llm, utcnow) ==
    IF ~hyd.ok THEN Failed(sess, hyd) ELSE
    LET event == UserEvent("USER_REQUESTED_HINT", hyd, NoAnswer, utcnow) IN
    CHOOSE response \in
        {hint_persist(sess, hyd, event, result, llm, utcnow) :
             result \in {apply_event(hyd.state, event, utcnow)}} : TRUE

-----------------------------------------------------------------------------
(* Inputs *)

\* answers a learner may post: option indices, index lists, texts by length
Answers ==
    {IntAnswer(0), IntAnswer(1), ListAnswer(<<0, 2>>), StrAnswer(4)}

PlainText == <<"txt">>
McqBlockText == <<"txt", OpenMarker, "{mcq}", CloseMarker>>
BlankMcqBlockText == <<"txt", OpenMarker, "{mcq_blank}", CloseMarker>>
ProgressBlockText == <<OpenMarker, "{q2of5}", CloseMarker, "txt">>
MalformedBlockText == <<"txt", OpenMarker, "{bad", CloseMarker>>
NonObjectBlockText == <<"txt", OpenMarker, "[]", CloseMarker>>

\* a request runs at most one LLM task, which reads either the text or the
\* evaluation of the outcome
LlmOutcomes ==
    {LlmOutcome(TRUE, <<>>, 0, FALSE),
     LlmOutcome(FALSE, PlainText, -5, TRUE),
     LlmOutcome(FALSE, McqBlockText, 34, TRUE),
     LlmOutcome(FALSE, MalformedBlockText, 35, FALSE),
     LlmOutcome(FALSE, NonObjectBlockText, 60, FALSE)}

-----------------------------------------------------------------------------
(* Progress tracking (progress_tracking.py).  Identifiers are strings; NoId *)
(* stands for a key the metadata does not hold (None) and "" is the empty  *)
(* string; both are false in a condition.                                  *)

NoId == "None"

Truthy(id) == id \notin {NoId, ""}

\* ProgressConfig: phases by their number, milestones and triggers by id
ProgressConfig(mode, total_questions, phases, milestones, triggers) ==
    [mode |-> mode, total_questions |-> total_questions, phases |-> phases,
     milestones |-> milestones, triggers |-> triggers]

\* the metadata of the LLM, every key read with its metadata.get default
Metadata(number, complete, id, ids, percent) ==
    [number |-> number, complete |-> complete, id |-> id, ids |-> ids,
     progressPercent |-> percent]

\* current_progress_state, every key read with its state.get default
ProgressState(questions_answered, current_phase, achieved, activated) ==
    [questions_answered |-> questions_answered, current_phase |-> current_phase,
     achieved_milestones |-> achieved, activated_triggers |-> activated]

EmptyProgressState == ProgressState(0, 1, {}, {})

\* (is_valid, updated_progress_state), or an uncaught exception
Validated(is_valid, state) == [raises |-> FALSE, is_valid |-> is_valid, state |-> state]

ValidationRaises(state) == [raises |-> TRUE, is_valid |-> FALSE, state |-> state]

\* abs((count / total) * 100 - actual) > 1, for total > 0
deviates(count, total, actual) ==
    LET d == count * 100 - actual * total
    IN  (IF d < 0 THEN 0 - d ELSE d) > total

\* len(ids) != len(set(ids))
has_duplicates(ids) == Len(ids) # Cardinality({ids[i] : i \in 1..Len(ids)})

validate_questions_mode(config, metadata, state) ==
    LET total_questions == config.total_questions
        question_number == metadata.number
    IN  IF question_number < 1 \/ question_number > total_questions
        THEN Validated(FALSE, state)
        ELSE
        LET questions_answered ==
                IF metadata.complete /\ question_number > state.questions_answered
                THEN question_number ELSE state.questions_answered
        IN  IF deviates(questions_answered, total_questions, metadata.progressPercent)
            THEN Validated(FALSE, state)
            ELSE Validated(TRUE, [EmptyProgressState EXCEPT
                                     !.questions_answered = questions_answered])

validate_phases_mode(config, metadata, state) ==
    LET total_phases == config.phases
        phase == metadata.number
    IN  IF phase < 1 \/ phase > total_phases
        THEN Validated(FALSE, state)
        ELSE
        LET current_phase ==
                IF metadata.complete /\ phase = state.current_phase
                THEN Min(phase + 1, total_phases) ELSE state.current_phase
        IN  IF deviates(current_phase, total_phases, metadata.progressPercent)
            THEN Validated(FALSE, state)
            ELSE Validated(TRUE, [EmptyProgressState EXCEPT
                                     !.current_phase = current_phase])

validate_milestones_mode(config, metadata, state) ==
    LET configured == config.milestones
        total == Cardinality(configured)
        id == metadata.id
    IN  IF Truthy(id) /\ id \notin configured
        THEN Validated(FALSE, state)
        ELSE
        LET current == IF metadata.complete /\ Truthy(id)
                       THEN state.achieved_milestones \cup {id}
                       ELSE state.achieved_milestones
        IN  IF has_duplicates(metadata.ids)
            THEN Validated(FALSE, state)
            ELSE IF total = 0
            THEN ValidationRaises(state)
            ELSE IF deviates(Cardinality(current), total, metadata.progressPercent)
            THEN Validated(FALSE, state)
            ELSE Validated(TRUE, [EmptyProgressState EXCEPT
                                     !.achieved_milestones = current])

validate_triggers_mode(config, metadata, state) ==
    LET configured == config.triggers
        total == Cardinality(configured)
        id == metadata.id
    IN  IF Truthy(id) /\ id \notin configured
        THEN Validated(FALSE, state)
        ELSE
        LET current == IF metadata.complete /\ Truthy(id)
                       THEN state.activated_triggers \cup {id}
                       ELSE state.activated_triggers
        IN  IF has_duplicates(metadata.ids)
            THEN Validated(FALSE, state)
            ELSE IF total = 0
            THEN ValidationRaises(state)
            ELSE IF deviates(Cardinality(current), total, metadata.progressPercent)
            THEN Validated(FALSE, state)
            ELSE Validated(TRUE, [EmptyProgressState EXCEPT
                                     !.activated_triggers = current])

validate_progress_metadata(config, metadata, current_progress_state) ==
    CASE config.mode = "questions" ->
             validate_questions_mode(config, metadata, current_progress_state)
      [] config.mode = "phases" ->
             validate_phases_mode(config, metadata, current_progress_state)
      [] config.mode = "milestones" ->
             validate_milestones_mode(config, metadata, current_progress_state)
      [] config.mode = "triggers" ->
             validate_triggers_mode(config, metadata, current_progress_state)
      [] OTHER -> Validated(FALSE, current_progress_state)

\* the configurations of the model: four questions, two phases, two
\* milestones, two triggers
ProgressConfigs ==
    {ProgressConfig("questions", 4, 0, {}, {}),
     ProgressConfig("phases", 0, 2, {}, {}),
     ProgressConfig("milestones", 0, 0, {"m1", "m2"}, {}),
     ProgressConfig("triggers", 0, 0, {}, {"t1", "t2"})}

\* what the LLM may report under a configuration
Metadatas(config) ==
    IF config.mode \in {"questions", "phases"}
    THEN {Metadata(number, complete, NoId, <<>>, percent) :
              number \in 0..5, complete \in BOOLEAN,
              percent \in {0, 25, 26, 27, 50, 52, 75, 100}}
    ELSE LET known == IF config.mode = "milestones" THEN config.milestones
                      ELSE config.triggers
             one == CHOOSE id \in known : TRUE
         IN  {Metadata(0, complete, id, ids, percent) :
                  complete \in BOOLEAN,
                  id \in known \cup {NoId, "", "zz"},
                  ids \in {<<>>, <<one>>, <<one, one>>},
                  percent \in {0, 1, 2, 50, 100}}

\* no validation has run
NoProgress ==
    [config |-> ProgressConfig("none", 0, 0, {}, {}), given |-> EmptyProgressState,
     metadata |-> Metadata(0, FALSE, NoId, <<>>, 0),
     result |-> Validated(FALSE, EmptyProgressState), calls |-> 0]

-----------------------------------------------------------------------------
(* JSON extraction (LLMOrchestrator._extract_json).  A response text is a  *)
(* sequence of characters: "{", "}", " " (white space) and "x" (any other  *)
(* character).                                                             *)

\* longest response text of the model
MaxTextLen == 4

Chars == {"{", "}", " ", "x"}

RECURSIVE strip_left(_)
strip_left(text) ==
    IF text # <<>> /\ Head(text) = " " THEN strip_left(Tail(text)) ELSE text

RECURSIVE strip_right(_)
strip_right(text) ==
    IF text # <<>> /\ text[Len(text)] = " "
    THEN strip_right(SubSeq(text, 1, Len(text) - 1))
    ELSE text

\* text.strip()
strip(text) == strip_right(strip_left(text))

\* the loop over text[i:]: the index at which brace_count returns to 0, or
\* 0 when the loop runs to the end
RECURSIVE scan_braces(_, _, _)
scan_braces(text, i, brace_count) ==
    IF i > Len(text) THEN 0
    ELSE IF text[i] = "{" THEN scan_braces(text, i + 1, brace_count + 1)
    ELSE IF text[i] = "}"
    THEN IF brace_count - 1 = 0 THEN i
         ELSE scan_braces(text, i + 1, brace_count - 1)
    ELSE scan_braces(text, i + 1, brace_count)

Extracted(ok, value, error) == [ok |-> ok, value |-> value, error |-> error]

extract_json(text) ==
    LET stripped == strip(text)
        clean_end == IF stripped # <<>> /\ Head(stripped) = "{"
                     THEN scan_braces(stripped, 1, 0) ELSE 0
        start == find(stripped, "{")
    IN  IF clean_end # 0
        THEN Extracted(TRUE, SubSeq(stripped, 1, clean_end), "")
        ELSE IF start = 0
        THEN Extracted(FALSE, <<>>, "No JSON object found in response")
        ELSE IF scan_braces(stripped, start, 0) # 0
        THEN Extracted(TRUE, SubSeq(stripped, start,
                                    scan_braces(stripped, start, 0)), "")
        ELSE Extracted(FALSE, <<>>, "Unmatched braces in JSON")

\* the response texts of the model
Texts == UNION {[1..n -> Chars] : n \in 0..MaxTextLen}

NoExtraction == [text |-> <<>>, result |-> Extracted(FALSE, <<>>, ""), calls |-> 0]

-----------------------------------------------------------------------------
(* State machine of the requests of one session *)

SessionRow(status, total_score, current_step_index) ==
    [status |-> status, total_score |-> total_score,
     current_step_index |-> current_step_index]

Last(op, outcome, pre, post, events) ==
    [op |-> op, outcome |-> outcome, pre |-> pre, post |-> post,
     events |-> events]

Init ==
    /\ steps \in Challenges
    /\ session = SessionRow("none", 0, 0)
    /\ log = {}
    /\ snapshots = {}
    /\ now = 1
    /\ reqs = {}
    /\ est = InitialState
    /\ last = Last("init", "ok", InitialState, InitialState, <<>>)
    /\ peer = SessionRow("none", 0, 0)
    /\ progress = NoProgress
    /\ extraction = NoExtraction

\* db.add / flush of each append_and_snapshot call, then db.commit()
Commit(writes) ==
    LET base == Cardinality(log) IN
    /\ log' = log \cup
           {GameEvent(base + i, writes[i].event.event_type,
                      writes[i].event.data, writes[i].sequence_number, now) :
                i \in 1..Len(writes)}
    /\ snapshots' = snapshots \cup
           {SessionSnapshot(base + i, writes[i].state, writes[i].sequence_number) :
                i \in {j \in 1..Len(writes) :
                          should_create_snapshot(writes[j].sequence_number)}}

\* the request returns: its writes are committed, or (on an exception) dropped
Finish(op, response) ==
    /\ last' = Last(op, response.outcome, response.pre, response.post,
                    response.events)
    /\ IF response.outcome = "ok"
       THEN /\ Commit(response.writes)
            /\ session' = response.session
            /\ now' = now + 1
       ELSE UNCHANGED <<log, snapshots, session, now>>

\* HTTP 400: the session is not in the status the endpoint requires
Reject(op) ==
    /\ last' = Last(op, "rejected", last.post, last.post, <<>>)
    /\ UNCHANGED <<log, snapshots, session, now>>

\* create_session appends SESSION_CREATED with append_event (no snapshot)
CreateSession ==
    /\ reqs = {}
    /\ session.status = "none"
    /\ session' = SessionRow("created", 0, 0)
    /\ log' = log \cup {GameEvent(Cardinality(log) + 1, "SESSION_CREATED",
                                  NoData, 0, now)}
    /\ now' = now + 1
    /\ last' = Last("create", "ok", InitialState, InitialState,
                    <<Event("SESSION_CREATED", 0, now, NoData)>>)
    /\ UNCHANGED <<steps, snapshots, reqs, est, peer, progress, extraction>>

\* the start request without its status check
StartSessionUnchecked ==
    /\ reqs = {}
    /\ session.status # "none"
    /\ \E hyd \in hydrate_state(log, snapshots, now) :
           \E llm \in LlmOutcomes :
               /\ hyd.latest_sequence < MaxSeq
               /\ \E response \in {start_session(session, hyd, llm, now)} :
                      Finish("start", response)
    /\ UNCHANGED <<steps, reqs, est, peer, progress, extraction>>

\* POST /sessions/{id}/start
StartSession ==
    /\ reqs = {}
    /\ session.status # "none"
    /\ IF session.status # "created"
       THEN Reject("start")
       ELSE \E hyd \in hydrate_state(log, snapshots, now) :
                \E llm \in LlmOutcomes :
                    /\ hyd.latest_sequence < MaxSeq
                    /\ \E response \in {start_session(session, hyd, llm, now)} :
                           Finish("start", response)
    /\ UNCHANGED <<steps, reqs, est, peer, progress, extraction>>

SubmitAttempt ==
    /\ reqs = {}
    /\ session.status # "none"
    /\ IF session.status # "active"
       THEN Reject("attempt")
       ELSE \E hyd \in hydrate_state(log, snapshots, now) :
                \E answer \in Answers, llm \in LlmOutcomes :
                    /\ hyd.latest_sequence < MaxSeq
                    /\ \E response \in
                               {submit_attempt(session, hyd, answer, llm, now)} :
                           Finish("attempt", response)
    /\ UNCHANGED <<steps, reqs, est, peer, progress, extraction>>

SubmitContinue ==
    /\ reqs = {}
    /\ session.status # "none"
    /\ IF session.status # "active"
       THEN Reject("continue")
       ELSE \E hyd \in hydrate_state(log, snapshots, now) :
                /\ hyd.latest_sequence < MaxSeq
                /\ \E response \in {submit_action_continue(session, hyd, now)} :
                       Finish("continue", response)
    /\ UNCHANGED <<steps, reqs, est, peer, progress, extraction>>

SubmitHint ==
    /\ reqs = {}
    /\ session.status # "none"
    /\ IF session.status # "active"
       THEN Reject("hint")
       ELSE \E hyd \in hydrate_state(log, snapshots, now) :
                \E llm \in LlmOutcomes :
                    /\ hyd.latest_sequence < MaxSeq
                    /\ hyd.state.hints_used < MaxHints
                    /\ \E response \in {submit_action_hint(session, hyd, llm, now)} :
                           Finish("hint", response)
    /\ UNCHANGED <<steps, reqs, est, peer, progress, extraction>>

Next ==
    \/ CreateSession
    \/ StartSession
    \/ SubmitAttempt
    \/ SubmitContinue
    \/ SubmitHint

Spec == Init /\ [][Next]_vars

-----------------------------------------------------------------------------
(* Overlapping requests of one session: each request hydrates in its own   *)
(* database session, computes, and commits its appends later.  No unique  *)
(* constraint covers (session_id, sequence_number) or (session_id,        *)
(* event_sequence), so every commit succeeds.                             *)

\* the inputs of overlapping requests
ConcAnswers == {IntAnswer(0), IntAnswer(1)}
ConcOutcomes == {LlmOutcome(TRUE, <<>>, 0, FALSE),
                 LlmOutcome(FALSE, PlainText, 60, TRUE)}

Request(id, kind, answer, llm, sess, hyd) ==
    [id |-> id, kind |-> kind, answer |-> answer, llm |-> llm,
     sess |-> sess, hyd |-> hyd]

RequiredStatus(kind) == IF kind = "start" THEN "created" ELSE "active"

BeginRequest ==
    /\ Cardinality(reqs) < MaxInFlight
    /\ \E kind \in {"start", "attempt", "continue", "hint"} :
         /\ session.status = RequiredStatus(kind)
         /\ \E hyd \in hydrate_state(log, snapshots, now) :
              \E answer \in ConcAnswers, llm \in ConcOutcomes :
                /\ hyd.latest_sequence < MaxConcSeq
                /\ kind # "attempt" => answer = IntAnswer(0)
                /\ kind = "continue" => llm.fails
                /\ reqs' = reqs \cup
                       {Request(CHOOSE i \in 1..MaxInFlight :
                                    \A r \in reqs : r.id # i,
                                kind, answer, llm, session, hyd)}
    /\ UNCHANGED <<steps, session, log, snapshots, now, est, last, peer, progress, extraction>>

respond(r, utcnow) ==
    CASE r.kind = "start" -> start_session(r.sess, r.hyd, r.llm, utcnow)
      [] r.kind = "attempt" -> submit_attempt(r.sess, r.hyd, r.answer, r.llm, utcnow)
      [] r.kind = "continue" -> submit_action_continue(r.sess, r.hyd, utcnow)
      [] OTHER -> submit_action_hint(r.sess, r.hyd, r.llm, utcnow)

\* the UPDATE of the GameSession row sets the columns the request changed
merge_session(current, loaded, changed) ==
    [f \in DOMAIN current |->
        IF changed[f] # loaded[f] THEN changed[f] ELSE current[f]]

FinishRequest ==
    \E r \in reqs :
        \E response \in {respond(r, now)} :
        /\ reqs' = reqs \ {r}
        /\ last' = Last(r.kind, response.outcome, response.pre, response.post,
                        response.events)
        /\ IF response.outcome = "ok"
           THEN /\ Commit(response.writes)
                /\ session' = merge_session(session, r.sess, response.session)
                /\ now' = now + 1
           ELSE UNCHANGED <<log, snapshots, session, now>>
        /\ UNCHANGED <<steps, est, peer, progress, extraction>>

NextConc ==
    \/ CreateSession
    \/ BeginRequest
    \/ FinishRequest

SpecConc == Init /\ [][NextConc]_vars

-----------------------------------------------------------------------------
(* Engine-level runs: any sequence of events folded from the initial state *)

EngineAnswers ==
    {IntAnswer(0), IntAnswer(1), IntAnswer(5),
     ListAnswer(<<0, 2>>), ListAnswer(<<2, 0>>), ListAnswer(<<0>>),
     ListAnswer(<<>>), StrAnswer(4), StrAnswer(0), StrAnswer(MaxAnswerLen + 1)}

\* raw_score and passed as an evaluation reports them
Evaluations == {<<-5, TRUE>>, <<34, TRUE>>, <<35, FALSE>>, <<60, FALSE>>}

NarrationTexts ==
    {PlainText, McqBlockText, BlankMcqBlockText, ProgressBlockText,
     MalformedBlockText, NonObjectBlockText}

EngineEvents(t) ==
    {Event(type, t, t, NoData) :
        type \in {"SESSION_CREATED", "SESSION_STARTED", "USER_CONTINUED",
                  "USER_REQUESTED_HINT", "STEP_ENTERED", "SCORE_AWARDED",
                  "SESSION_COMPLETED", "STEP_COMPLETED", "HINT_PROVIDED"}}
    \cup {Event("USER_SUBMITTED_ANSWER", t, t, [NoData EXCEPT !.answer = a]) :
             a \in EngineAnswers}
    \cup {Event("LEM_EVALUATED", t, t,
                [NoData EXCEPT !.raw_score = ev[1], !.passed = ev[2],
                               !.rationale = "rationale"]) :
             ev \in Evaluations}
    \cup {Event("GM_NARRATED", t, t, [NoData EXCEPT !.content = c]) :
             c \in NarrationTexts}

ApplyEvent ==
    /\ now <= MaxApplied
    /\ \E event \in EngineEvents(now) :
         \E result \in {apply_event(est, event, now)} :
         /\ est' = IF result.ok THEN result.new_state ELSE est
         /\ last' = Last(event.event_type,
                         IF result.ok THEN "ok" ELSE "error",
                         est, IF result.ok THEN result.new_state ELSE est,
                         <<event>>)
    /\ now' = now + 1
    /\ UNCHANGED <<steps, session, log, snapshots, reqs, peer, progress, extraction>>

NextEngine == ApplyEvent

SpecEngine == Init /\ [][NextEngine]_vars

-----------------------------------------------------------------------------
(* Two sessions on the same tables.  Each session has at most one request  *)
(* in flight; the requests of the two sessions overlap freely: each reads  *)
(* the tables when it hydrates and writes them when it commits.  The code *)
(* names its session only by the session_id it passes to its queries and  *)
(* writes, so running it for the second session is running it for the     *)
(* first on the tables with the two ids exchanged.  The clock does not    *)
(* tick during these runs and row ids (uuid4) are numbered per session.   *)

PeerId == "s2"

\* the inputs of the requests of the two sessions
TwoAnswers == {IntAnswer(0)}
TwoOutcomes == {LlmOutcome(FALSE, PlainText, 60, TRUE)}

Sessions == {SessionId, PeerId}

OtherId(sid) == IF sid = SessionId THEN PeerId ELSE SessionId

Exchange(rows) == {[r EXCEPT !.session_id = OtherId(@)] : r \in rows}

\* the tables as the code run for session sid addresses them
View(sid, rows) == IF sid = SessionId THEN rows ELSE Exchange(rows)

\* the rows of a table that belong to session sid
Owned(sid, rows) == {r \in rows : r.session_id = sid}

\* the GameSession row of session sid
RowOf(sid) == IF sid = SessionId THEN session ELSE peer

InFlightId(sid) == IF sid = SessionId THEN 1 ELSE 2

\* a fresh row id of session sid
TwoRowId(sid, i) ==
    LET n == Cardinality(Owned(sid, log)) + i
    IN  IF sid = SessionId THEN n ELSE 0 - n

\* the UPDATE of the GameSession row of session sid
SetRow(sid, row) ==
    IF sid = SessionId THEN session' = row /\ peer' = peer
    ELSE peer' = row /\ session' = session

\* create_session for session sid
TwoCreate(sid) ==
    /\ RowOf(sid).status = "none"
    /\ log' = log \cup
           {[GameEvent(TwoRowId(sid, 1), "SESSION_CREATED", NoData, 0, now)
                EXCEPT !.session_id = sid]}
    /\ SetRow(sid, SessionRow("created", 0, 0))
    /\ UNCHANGED <<steps, snapshots, now, reqs, est, last, progress, extraction>>

\* a request of session sid loads its session row and hydrates
TwoBegin(sid) ==
    /\ \A r \in reqs : r.id # InFlightId(sid)
    /\ \E kind \in {"start", "attempt", "continue", "hint"} :
         /\ RowOf(sid).status = RequiredStatus(kind)
         /\ \E hyd \in hydrate_state(View(sid, log), View(sid, snapshots), now) :
              \E answer \in TwoAnswers, llm \in TwoOutcomes :
                /\ hyd.latest_sequence < MaxTwoSeq
                /\ kind = "hint" => hyd.state.hints_used < MaxHints
                /\ reqs' = reqs \cup
                       {Request(InFlightId(sid), kind, answer, llm, RowOf(sid), hyd)}
    /\ UNCHANGED <<steps, session, log, snapshots, now, est, last, peer, progress, extraction>>

\* db.add / flush of each append_and_snapshot call of session sid, db.commit()
TwoCommit(sid, writes) ==
    /\ log' = log \cup
           {[GameEvent(TwoRowId(sid, i), writes[i].event.event_type,
                       writes[i].event.data, writes[i].sequence_number, now)
                EXCEPT !.session_id = sid] : i \in 1..Len(writes)}
    /\ snapshots' = snapshots \cup
           {[SessionSnapshot(TwoRowId(sid, i), writes[i].state,
                             writes[i].sequence_number)
                EXCEPT !.session_id = sid] :
                i \in {j \in 1..Len(writes) :
                          should_create_snapshot(writes[j].sequence_number)}}

\* the request of session sid computes its response and commits
TwoFinish(sid) ==
    \E r \in reqs :
        /\ r.id = InFlightId(sid)
        /\ \E response \in {respond(r, now)} :
            /\ reqs' = reqs \ {r}
            /\ last' = Last(r.kind, response.outcome, response.pre, response.post,
                            response.events)
            /\ IF response.outcome = "ok"
               THEN /\ TwoCommit(sid, response.writes)
                    /\ SetRow(sid, response.session)
               ELSE UNCHANGED <<log, snapshots, session, peer>>
        /\ UNCHANGED <<steps, now, est, progress, extraction>>

NextTwo ==
    \E sid \in Sessions :
        \/ TwoCreate(sid)
        \/ TwoBegin(sid)
        \/ TwoFinish(sid)

SpecTwo == Init /\ [][NextTwo]_vars

-----------------------------------------------------------------------------
(* Progress validation of one challenge: each call validates a reported    *)
(* metadata against the state the previous accepted call returned.         *)

InitProgress ==
    /\ steps = ChallengeSimple
    /\ session = SessionRow("none", 0, 0)
    /\ log = {}
    /\ snapshots = {}
    /\ now = 1
    /\ reqs = {}
    /\ est = InitialState
    /\ last = Last("init", "ok", InitialState, InitialState, <<>>)
    /\ peer = SessionRow("none", 0, 0)
    /\ extraction = NoExtraction
    /\ \E config \in ProgressConfigs :
           progress = [NoProgress EXCEPT !.config = config]

ValidateProgress ==
    /\ \E metadata \in Metadatas(progress.config) :
         \E result \in {validate_progress_metadata(progress.config, metadata,
                                                  progress.result.state)} :
             progress' = [config |-> progress.config,
                          given |-> progress.result.state,
                          metadata |-> metadata,
                          result |-> result,
                          calls |-> 1]
    /\ UNCHANGED <<steps, session, log, snapshots, now, reqs, est, last, peer,
                   extraction>>

NextProgress == ValidateProgress

SpecProgress == InitProgress /\ [][NextProgress]_vars

-----------------------------------------------------------------------------
(* Calls of _extract_json on response texts *)

InitExtract ==
    /\ steps = ChallengeSimple
    /\ session = SessionRow("none", 0, 0)
    /\ log = {}
    /\ snapshots = {}
    /\ now = 1
    /\ reqs = {}
    /\ est = InitialState
    /\ last = Last("init", "ok", InitialState, InitialState, <<>>)
    /\ peer = SessionRow("none", 0, 0)
    /\ progress = NoProgress
    /\ \E text \in Texts : extraction = [NoExtraction EXCEPT !.text = text]

ExtractJson ==
    /\ extraction.calls = 0
    /\ \E result \in {extract_json(extraction.text)} :
           extraction' = [text |-> extraction.text, result |-> result, calls |-> 1]
    /\ UNCHANGED <<steps, session, log, snapshots, now, reqs, est, last, peer,
                   progress>>

NextExtract == ExtractJson

SpecExtract == InitExtract /\ [][NextExtract]_vars

-----------------------------------------------------------------------------
(* Properties *)

SeqNumbers == {r.sequence_number : r \in log}

\* the rows the last committed request appended
LastRows == {r \in log : r.created_at = now - 1}

\* C1: replay equivalence.  Hydrating from the latest snapshot returns the
\* same state, timestamps aside, as folding every event from sequence 0 onto
\* the initial state; both return a state.
C1_ReplayEquivalence ==
    \A h \in hydrate_state(log, snapshots, now) :
        \A z \in replay_from_zero(log, now) :
            /\ h.ok = z.ok
            /\ h.ok => StripTimestamps(h.state) = StripTimestamps(z.state)

\* C2: the sequence numbers persisted for the session are exactly 0..n, each
\* once; the rows of a request are numbered consecutively from the number
\* after the latest one, the user event first.
C2_GaplessSequence ==
    /\ SeqNumbers = 0..(Cardinality(log) - 1)
    /\ (last.outcome = "ok" /\ last.op \notin {"init", "create"}) =>
          /\ Cardinality(LastRows) = Len(last.events)
          /\ \A i \in 1..Len(last.events) :
                \E r \in LastRows :
                    /\ r.sequence_number = Cardinality(log \ LastRows) + (i - 1)
                    /\ r.event_type = last.events[i].event_type

\* C2 witness: a request hydrated from the snapshot at 5 and appended its user
\* event and an LLM-result event after it
C2_Witness ==
    /\ \E snap \in snapshots : snap.event_sequence = 5
    /\ \E r \in LastRows : r.sequence_number = 6
    /\ Len(last.events) >= 2

\* C3: the log never holds two events of the session with the same
\* sequence_number, nor two snapshots with the same event_sequence and
\* different states, also when requests overlap.
C3_OneAppendWins ==
    /\ \A r1, r2 \in log :
          r1.sequence_number = r2.sequence_number => r1 = r2
    /\ \A s1, s2 \in snapshots :
          s1.event_sequence = s2.event_sequence
              => s1.snapshot_data = s2.snapshot_data

\* C4: total_score equals the sum of the scores in step_scores.
C4_TotalIsSum == est.total_score = SumScores(est.step_scores)

\* C4 witness: a choice answer and an evaluation were both scored
C4_Witness ==
    /\ Len(est.step_scores) >= 2
    /\ est.total_score > 0
    /\ \E i, j \in 1..Len(est.step_scores) :
          est.step_scores[i].score # est.step_scores[j].score

\* C5: total_score never exceeds max_possible_score.
C5_TotalWithinMax == est.total_score <= est.max_possible_score

\* C6: a snapshot with event_sequence s exists exactly when an event numbered
\* s was appended and s = 0 or s mod 5 = 0.
C6_SnapshotCadence ==
    \A s \in 0..(MaxSeq + 3) :
        (\E snap \in snapshots : snap.event_sequence = s)
            <=> /\ s \in SeqNumbers
                /\ (s = 0 \/ s % SNAPSHOT_INTERVAL = 0)

StripDerived(events) ==
    [i \in 1..Len(events) |-> [events[i] EXCEPT !.timestamp = 0]]

\* C7: determinism.  Two calls of apply_event on the same state and event,
\* made at any two instants, return the same outcome: equal new states
\* (transcript included), equal derived events (their own creation time
\* aside) and equal LLM tasks.
C7_Determinism ==
    \A event \in EngineEvents(now) :
        \A t1, t2 \in {now, now + 1} :
            LET r1 == apply_event(est, event, t1)
                r2 == apply_event(est, event, t2)
            IN  /\ r1.ok = r2.ok
                /\ r1.new_state = r2.new_state
                /\ StripDerived(r1.derived_events) = StripDerived(r2.derived_events)
                /\ r1.llm_tasks = r2.llm_tasks

LemEvaluated(raw_score, passed, t) ==
    Event("LEM_EVALUATED", t, t,
          [NoData EXCEPT !.raw_score = raw_score, !.passed = passed,
                         !.rationale = "rationale"])

Clamp(x, lo, hi) == IF x < lo THEN lo ELSE IF x > hi THEN hi ELSE x

\* C8: applying LEM_EVALUATED with any raw_score appends a StepScore whose
\* score is clamp(raw_score, 0, points_possible) of the current step and adds
\* that amount to total_score.
C8_ScoreClamping ==
    \A ev \in Evaluations :
        LET result == apply_event(est, LemEvaluated(ev[1], ev[2], now), now)
            expected == Clamp(ev[1], 0, CurrentStep(est).points_possible)
        IN  /\ result.ok
            /\ Len(result.new_state.step_scores) = Len(est.step_scores) + 1
            /\ result.new_state.step_scores[Len(est.step_scores) + 1].score = expected
            /\ result.new_state.total_score = est.total_score + expected

IsChoiceStep(step) == step.step_type \in {"MCQ_SINGLE", "MCQ_MULTI", "TRUE_FALSE"}

Submitted(answer, t) ==
    Event("USER_SUBMITTED_ANSWER", t, t, [NoData EXCEPT !.answer = answer])

\* the scoring events of the current step: an evaluation, or a well-formed
\* answer to a choice step
ScoringEvents ==
    {LemEvaluated(ev[1], ev[2], now) : ev \in Evaluations}
    \cup {Submitted(a, now) : a \in {b \in EngineAnswers :
              IsChoiceStep(CurrentStep(est))
              /\ mcq_validate_answer(CurrentStep(est), b)}}

\* C9: for every scored step the computation yields a result, and the
\* recorded passed flag is true exactly when
\* score / points_possible >= passing_threshold / 100.
C9_ThresholdPass ==
    \A event \in ScoringEvents :
        LET result == apply_event(est, event, now)
            step == CurrentStep(est)
            entry == result.new_state.step_scores[Len(est.step_scores) + 1]
        IN  /\ result.ok
            /\ entry.passed <=>
                  (entry.score * 100 >= step.passing_threshold * step.points_possible)

\* round(a / b) of Python: to the nearest integer, ties to the even one
PyRound(a, b) ==
    LET q == a \div b
        r == a % b
    IN  IF 2 * r < b THEN q
        ELSE IF 2 * r > b THEN q + 1
        ELSE IF q % 2 = 0 THEN q ELSE q + 1

Range(s) == {s[i] : i \in 1..Len(s)}

\* C10: a valid MCQ_MULTI answer that selects k of the n correct options and
\* no incorrect one is scored round(points_possible * k / n).
C10_PartialCredit ==
    \A answer \in EngineAnswers :
        LET step == CurrentStep(est)
            correct == Range(step.correct_answers)
            result == apply_event(est, Submitted(answer, now), now)
        IN  (/\ step.step_type = "MCQ_MULTI"
             /\ mcq_validate_answer(step, answer)
             /\ Range(answer.val) \subseteq correct
             /\ Cardinality(Range(answer.val)) = Len(answer.val))
            => /\ result.ok
               /\ result.new_state.step_scores[Len(est.step_scores) + 1].score
                      = PyRound(step.points_possible * Len(answer.val),
                                Cardinality(correct))

RowAt(s) == CHOOSE r \in log : r.sequence_number = s

OnlyChoiceAndGates ==
    \A i \in 1..Len(steps) :
        IsChoiceStep(steps[i]) \/ steps[i].step_type = "CONTINUE_GATE"

\* the row of the correct action on a step: the right answer, or a continue
CorrectRow(step, row) ==
    IF IsChoiceStep(step)
    THEN /\ row.event_type = "USER_SUBMITTED_ANSWER"
         /\ mcq_validate_answer(step, row.event_data.answer)
         /\ check_answer(step, row.event_data.answer)
    ELSE row.event_type = "USER_CONTINUED"

\* the log of a run that created and started the session and then acted
\* correctly on the first k steps, in order
CorrectPrefix(k) ==
    /\ SeqNumbers = 0..(k + 1)
    /\ Cardinality(log) = k + 2
    /\ RowAt(0).event_type = "SESSION_CREATED"
    /\ RowAt(1).event_type = "SESSION_STARTED"
    /\ \A i \in 1..k : CorrectRow(steps[i], RowAt(i + 1))

CorrectAnswer(step) ==
    IF step.step_type = "MCQ_MULTI" THEN ListAnswer(step.correct_answers)
    ELSE IntAnswer(step.correct_answer)

RECURSIVE ChoicePoints(_)
ChoicePoints(ss) ==
    IF ss = <<>> THEN 0
    ELSE (IF IsChoiceStep(Head(ss)) THEN Head(ss).points_possible ELSE 0)
         + ChoicePoints(Tail(ss))

\* the request of the correct action on a step
CorrectRequest(step, hyd) ==
    IF IsChoiceStep(step)
    THEN submit_attempt(session, hyd, CorrectAnswer(step),
                        LlmOutcome(TRUE, <<>>, 0, FALSE), now)
    ELSE submit_action_continue(session, hyd, now)

\* C11: end-to-end completion.  In a challenge of choice steps and gates,
\* after the session was started and the first k steps were acted on
\* correctly, the correct action on step k+1 is accepted and moves to the
\* next step; on the last step it ends in status completed with total_score
\* equal to the sum of points_possible of the choice steps.
C11_EndToEnd ==
    OnlyChoiceAndGates =>
        \A k \in 0..(Len(steps) - 1) :
            CorrectPrefix(k) =>
                \A hyd \in hydrate_state(log, snapshots, now) :
                    \A response \in {CorrectRequest(steps[k + 1], hyd)} :
                        /\ session.status = "active"
                        /\ response.outcome = "ok"
                        /\ k + 1 < Len(steps)
                              => response.post.current_step_index = k + 1
                        /\ k + 1 = Len(steps)
                              => /\ response.post.status = "completed"
                                 /\ response.post.total_score = ChoicePoints(steps)

\* the same run on the sample challenge (50 + gate + 50)
C11_ScenarioA == steps = ChallengeA => C11_EndToEnd

\* a well-formed answer to a choice step that is not the correct one and
\* whose score 0 does not meet the step's threshold
WrongChoice(state, answer) ==
    LET step == CurrentStep(state) IN
    /\ IsChoiceStep(step)
    /\ mcq_validate_answer(step, answer)
    /\ ~check_answer(step, answer)
    /\ step.passing_threshold * step.points_possible > 0

\* C12: a wrong answer on a choice step whose threshold it does not meet is
\* applied and leaves current_step_index, current_ui_mode, status and
\* total_score as they were.
C12_WrongAnswerStays ==
    (/\ last.op = "USER_SUBMITTED_ANSWER"
     /\ WrongChoice(last.pre, last.events[1].data.answer))
    => /\ last.outcome = "ok"
       /\ last.post.current_step_index = last.pre.current_step_index
       /\ last.post.current_ui_mode = last.pre.current_ui_mode
       /\ last.post.status = last.pre.status
       /\ last.post.total_score = last.pre.total_score

\* C12 witness: a wrong answer was applied after the learner had scored
C12_Witness ==
    /\ last.op = "USER_SUBMITTED_ANSWER"
    /\ WrongChoice(last.pre, last.events[1].data.answer)
    /\ last.outcome = "ok"
    /\ last.pre.total_score > 0

\* a submission completed its step: the run moved on or the session ended
CompletedStep(pre, post) ==
    \/ post.current_step_index > pre.current_step_index
    \/ (post.status = "completed" /\ pre.status # "completed")

\* C13: step_scores gains an entry only when a step is completed: a
\* submission that does not complete the step appends no StepScore, and
\* step_scores never holds two entries for one step index.
C13_ScoreOnlyOnCompletion ==
    /\ (/\ last.op = "USER_SUBMITTED_ANSWER"
        /\ last.outcome = "ok"
        /\ ~CompletedStep(last.pre, last.post))
       => last.post.step_scores = last.pre.step_scores
    /\ \A i, j \in 1..Len(est.step_scores) :
          i # j => est.step_scores[i].step_index # est.step_scores[j].step_index

\* the LLM call of the request raises
FailingLlm == LlmOutcome(TRUE, <<>>, 0, FALSE)

\* the current step is a free-text step that the LEM evaluates
LemStep(state) ==
    /\ CurrentStep(state).step_type = "CHAT"
    /\ ~CurrentStep(state).simple

HasMessage(state, toks) ==
    \E i \in 1..Len(state.messages) : state.messages[i].content.toks = toks

\* C14: LEM failure containment.  When the evaluation raises, the attempt
\* still completes and appends one LEM_EVALUATED event with raw_score 0,
\* passed false and the error rationale; applying it adds a StepScore of
\* score 0, leaves total_score unchanged and adds the rationale to the
\* transcript.
C14_LemFailureContained ==
    session.status = "active" =>
        \A hyd \in hydrate_state(log, snapshots, now) :
            \A answer \in Answers :
                (/\ hyd.ok
                 /\ LemStep(hyd.state)
                 /\ chat_validate_answer(CurrentStep(hyd.state), answer))
                => \A response \in {submit_attempt(session, hyd, answer,
                                                   FailingLlm, now)} :
                       /\ response.outcome = "ok"
                       /\ Len(response.events) = 2
                       /\ response.events[2].event_type = "LEM_EVALUATED"
                       /\ response.events[2].data.raw_score = 0
                       /\ ~response.events[2].data.passed
                       /\ response.events[2].data.rationale = "Evaluation Error"
                       /\ Len(response.post.step_scores)
                              = Len(hyd.state.step_scores) + 1
                       /\ response.post.step_scores[
                              Len(response.post.step_scores)].score = 0
                       /\ response.post.total_score = hyd.state.total_score
                       /\ HasMessage(response.post, <<"Evaluation Error">>)

\* the same on a free-text step that is worth points
C14_OnScoredSteps ==
    (\A i \in 1..Len(steps) : steps[i].points_possible > 0
                              \/ steps[i].step_type # "CHAT")
        => C14_LemFailureContained

\* the tasks are narration or hint tasks
TextTasks(tasks) ==
    /\ tasks # <<>>
    /\ \A i \in 1..Len(tasks) : tasks[i].task_type \in {"GM_NARRATE", "TEACH_HINTS"}

\* a request whose LLM calls all fail: it completes, each task yields one
\* GM_NARRATED event with the warning text, which is appended and shown, and
\* the scoring fields are those of the state the user event produced
FailureContained(tasks, applied, response) ==
    /\ response.outcome = "ok"
    /\ Len(response.events) = 1 + Len(tasks)
    /\ Len(response.writes) = Len(response.events)
    /\ \A i \in 1..Len(response.events) :
          response.writes[i].event = response.events[i]
    /\ \A i \in 2..Len(response.events) :
          /\ response.events[i].event_type = "GM_NARRATED"
          /\ response.events[i].data.content = <<"warning">>
    /\ HasMessage(response.post, <<"warning">>)
    /\ response.post.total_score = applied.total_score
    /\ response.post.step_scores = applied.step_scores
    /\ response.post.current_step_index = applied.current_step_index
    /\ response.post.status = applied.status

\* C15: narration and hint failure containment.  When the GM_NARRATE or
\* TEACH_HINTS call of a start, attempt or hint request fails, the request
\* completes; exactly one GM_NARRATED event with a visible message is
\* produced, applied and appended for the task, and total_score,
\* step_scores, current_step_index and status are those the request would
\* have reached without the task.
C15_NarrationFailureContained ==
    \A hyd \in hydrate_state(log, snapshots, now) :
        hyd.ok =>
            /\ session.status = "created" =>
                   \A result \in {apply_event(hyd.state,
                                       UserEvent("SESSION_STARTED", hyd, NoAnswer, now),
                                       now)} :
                       (result.ok /\ TextTasks(result.llm_tasks)) =>
                           FailureContained(result.llm_tasks, result.new_state,
                               start_session(session, hyd, FailingLlm, now))
            /\ session.status = "active" =>
                   \A result \in {apply_event(hyd.state,
                                       UserEvent("USER_REQUESTED_HINT", hyd, NoAnswer, now),
                                       now)} :
                       (result.ok /\ TextTasks(result.llm_tasks)) =>
                           FailureContained(result.llm_tasks, result.new_state,
                               submit_action_hint(session, hyd, FailingLlm, now))
            /\ (session.status = "active"
                    /\ HasHandler(CurrentStep(hyd.state).step_type)) =>
                   \A answer \in Answers :
                       \A handled \in {get_handler_for_step_type(
                                            CurrentStep(hyd.state), answer, hyd.state)} :
                           \A result \in {apply_event(hyd.state,
                                               UserEvent("USER_SUBMITTED_ANSWER", hyd,
                                                         answer, now), now)} :
                               (/\ ~handled.raises
                                /\ result.ok
                                /\ TextTasks(handled.llm_tasks)) =>
                                   FailureContained(handled.llm_tasks, result.new_state,
                                       submit_attempt(session, hyd, answer,
                                                      FailingLlm, now))

\* a request whose only derived event is the warning of a failed call
WarnedRequest(op) ==
    /\ last.op = op
    /\ last.outcome = "ok"
    /\ Len(last.events) = 2
    /\ last.events[2].event_type = "GM_NARRATED"
    /\ last.events[2].data.content = <<"warning">>

\* C15 witness: a hint request whose call failed committed its warning
\* after the learner had scored
C15_Witness ==
    /\ WarnedRequest("hint")
    /\ last.post.total_score > 0
    /\ \E r \in log : /\ r.event_type = "GM_NARRATED"
                      /\ r.event_data.content = <<"warning">>

\* C16: after every completed attempt or action request the session record
\* agrees with the state the request produced: equal total_score and
\* current_step_index, and status completed whenever the state is completed.
C16_RecordAgrees ==
    (last.op \in {"attempt", "continue", "hint"} /\ last.outcome = "ok")
    => /\ session.total_score = last.post.total_score
       /\ session.current_step_index = last.post.current_step_index
       /\ (last.post.status = "completed" => session.status = "completed")

StartedRows == {r \in log : r.event_type = "SESSION_STARTED"}

\* C17: a session starts only from status created.  A start request on a
\* session that was already started is rejected and appends no event and no
\* snapshot, so the log of a started session holds exactly one
\* SESSION_STARTED event.
C17_StartOnlyFromCreated ==
    /\ [](/\ Cardinality(StartedRows) <= 1
          /\ session.status \in {"active", "completed"}
                 => Cardinality(StartedRows) = 1)
    /\ [][(last'.op = "start" /\ session.status # "created")
              => /\ last'.outcome = "rejected"
                 /\ log' = log
                 /\ snapshots' = snapshots
                 /\ session' = session]_vars

\* C17 witness: a start request was rejected on a session that had started
\* and answered
C17_Witness ==
    /\ last.op = "start"
    /\ last.outcome = "rejected"
    /\ Cardinality(StartedRows) = 1
    /\ \E r \in log : r.event_type = "USER_SUBMITTED_ANSWER"

\* C18: USER_CONTINUED advances only gate steps.  On a CONTINUE_GATE that is
\* not the last step it increases current_step_index by one and sets
\* current_ui_mode to the next step's type; on a step of any other type, or
\* on the last step, it leaves current_step_index unchanged.
C18_ContinueOnlyGates ==
    (last.op = "USER_CONTINUED" /\ last.outcome = "ok")
    => IF /\ CurrentStep(last.pre).step_type = "CONTINUE_GATE"
          /\ ~is_last_step(last.pre)
       THEN /\ last.post.current_step_index = last.pre.current_step_index + 1
            /\ last.post.current_ui_mode = CurrentStep(last.post).step_type
       ELSE last.post.current_step_index = last.pre.current_step_index

\* the gate half of C18: a continue on a gate that is not the last step
C18_OnGates ==
    (/\ last.op = "USER_CONTINUED"
     /\ last.outcome = "ok"
     /\ CurrentStep(last.pre).step_type = "CONTINUE_GATE")
    => C18_ContinueOnlyGates

\* the fields that decide the learner's result
ScoringFields(state) ==
    <<state.total_score, state.step_scores, state.current_step_index, state.status>>

\* C19: LLM text is advisory only.  Applying GM_NARRATED, whatever its
\* content, changes none of total_score, step_scores, current_step_index
\* and status; and two runs that differ only in the narration text they
\* received agree on these fields after the same next event.
C19_NarrationAdvisory ==
    \A c1, c2 \in NarrationTexts :
        \A n1 \in {apply_event(est, Event("GM_NARRATED", now, now,
                                          [NoData EXCEPT !.content = c1]), now)} :
            \A n2 \in {apply_event(est, Event("GM_NARRATED", now, now,
                                              [NoData EXCEPT !.content = c2]), now)} :
                (n1.ok /\ n2.ok) =>
                    /\ ScoringFields(n1.new_state) = ScoringFields(est)
                    /\ \A event \in EngineEvents(now + 1) :
                          event.event_type # "GM_NARRATED" =>
                              \A r1 \in {apply_event(n1.new_state, event, now + 1)} :
                                  \A r2 \in {apply_event(n2.new_state, event, now + 1)} :
                                      /\ r1.ok = r2.ok
                                      /\ r1.ok => ScoringFields(r1.new_state)
                                                      = ScoringFields(r2.new_state)

\* the first half of C19: applying GM_NARRATED changes no scoring field
C19_NarrationKeepsScore ==
    (last.op = "GM_NARRATED" /\ last.outcome = "ok")
    => ScoringFields(last.post) = ScoringFields(last.pre)

\* C20: apply_event fails, and returns no state, for every event whose type
\* is not one of the nine handled tags, the declared but unhandled
\* SESSION_COMPLETED, STEP_COMPLETED and HINT_PROVIDED included; such an
\* event is never silently ignored.
C20_UnknownTypeFails ==
    /\ (last.op \notin HandledTypes \cup {"init"})
           => (last.outcome = "error" /\ est = last.pre)
    /\ \A event \in EngineEvents(now) :
          event.event_type \notin HandledTypes
              => ~apply_event(est, event, now).ok

\* C20 witness: a STEP_COMPLETED event was refused in an active session
C20_Witness ==
    /\ last.op = "STEP_COMPLETED"
    /\ last.outcome = "error"
    /\ est.status = "active"

\* what the model holds of session sid: its events, snapshots and record
SessionData(sid) == <<Owned(sid, log), Owned(sid, snapshots), RowOf(sid)>>

\* the step is one of session sid: its creation, or its request committing
OwnStep(sid) ==
    \/ RowOf(sid).status = "none"
    \/ \E r \in reqs : r.id = InFlightId(sid) /\ r \notin reqs'

\* C21: two sessions are independent.  However their requests interleave,
\* the state hydrated for a session is the one its own rows produce alone,
\* and the events, snapshots and record of a session change only in that
\* session's own steps, which leave the other session's untouched.
C21_SessionsIndependent ==
    /\ [](\A sid \in Sessions :
            hydrate_state(View(sid, log), View(sid, snapshots), now)
                = hydrate_state(Owned(SessionId, View(sid, log)),
                                Owned(SessionId, View(sid, snapshots)), now))
    /\ [][\A sid \in Sessions :
             SessionData(sid)' # SessionData(sid)
                 => /\ OwnStep(sid)
                    /\ SessionData(OtherId(sid))' = SessionData(OtherId(sid))]_vars

\* C21 witness: the second session holds events and a snapshot while a
\* request of the first, which has answered before, is in flight
C21_Witness ==
    /\ Owned(PeerId, snapshots) # {}
    /\ \A sid \in Sessions : Cardinality(Owned(sid, log)) > 2
    /\ \E r \in log : r.session_id = SessionId
                      /\ r.event_type = "USER_SUBMITTED_ANSWER"
    /\ \E r \in reqs : r.id = InFlightId(SessionId)

\* every event of the sequence is written under the number it carries, and
\* no two writes of the request share a number
AllPersisted(events, writes) ==
    /\ \A i \in 1..Len(events) :
          \E j \in 1..Len(writes) :
              /\ writes[j].event = events[i]
              /\ writes[j].sequence_number = events[i].sequence_number
    /\ \A i, j \in 1..Len(writes) :
          i # j => writes[i].sequence_number # writes[j].sequence_number

\* C22: every event produced while handling a request is appended to the
\* log under the sequence number it carries: the user event, each
\* LLM-result event and each derived event the engine returned (the
\* STEP_ENTERED event of SESSION_STARTED); no two share a number.
C22_AllEventsPersisted ==
    \A hyd \in hydrate_state(log, snapshots, now) :
        \A llm \in LlmOutcomes :
            (hyd.ok /\ session.status = "created") =>
                \A result \in {apply_event(hyd.state,
                                    UserEvent("SESSION_STARTED", hyd, NoAnswer, now),
                                    now)} :
                    \A response \in {start_session(session, hyd, llm, now)} :
                        response.outcome = "ok" =>
                            AllPersisted(response.events \o result.derived_events,
                                         response.writes)

\* the part of C22 about the triggering user event alone
C22_UserEventPersisted ==
    (last.op \in {"start", "attempt", "continue", "hint"} /\ last.outcome = "ok")
    => \E r \in log :
           /\ r.event_type = last.events[1].event_type
           /\ r.sequence_number = last.events[1].sequence_number
           /\ r.event_data = last.events[1].data

\* a malformed submission: the wrong type for the step, an empty or
\* over-long text, an empty selection, or an option index out of bounds
Malformed(step, answer) ==
    CASE step.step_type \in {"MCQ_SINGLE", "TRUE_FALSE"} ->
             \/ answer.kind # "int"
             \/ (step.options > 0
                    /\ (answer.val[1] < 0 \/ answer.val[1] >= step.options))
      [] step.step_type = "MCQ_MULTI" ->
             \/ answer.kind # "list"
             \/ answer.val = <<>>
             \/ (step.options > 0
                    /\ \E i \in 1..Len(answer.val) :
                           answer.val[i] < 0 \/ answer.val[i] >= step.options)
      [] step.step_type = "CHAT" ->
             \/ answer.kind = "list"
             \/ (answer.kind = "str"
                    /\ (answer.val[1] = 0 \/ answer.val[1] > MaxAnswerLen))
      [] OTHER -> FALSE

MalformedBlock(gm_content) ==
    /\ has_markers(gm_content)
    /\ json_loads(meta_raw_of(gm_content)) = "error"

\* a GM_NARRATED event with a malformed block was applied last
MalformedNarrated ==
    /\ last.op = "GM_NARRATED"
    /\ MalformedBlock(last.events[1].data.content)

\* C24: a malformed metadata block is swallowed: apply_event does not
\* raise, current_ui_mode and current_ui_data are left unchanged, and the
\* message appended to the transcript is the raw narration text as received.
C24_MalformedBlockSwallowed ==
    MalformedNarrated
    => /\ last.outcome = "ok"
       /\ last.post.current_ui_mode = last.pre.current_ui_mode
       /\ last.post.current_ui_data = last.pre.current_ui_data
       /\ Len(last.post.messages) = Len(last.pre.messages) + 1
       /\ last.post.messages[Len(last.post.messages)].content.toks
              = last.events[1].data.content

\* the part of C24 that does not concern the text shown
C24_NoRaiseNoSwitch ==
    MalformedNarrated
    => /\ last.outcome = "ok"
       /\ last.post.current_ui_mode = last.pre.current_ui_mode
       /\ last.post.current_ui_data = last.pre.current_ui_data
       /\ Len(last.post.messages) = Len(last.pre.messages) + 1

\* the percentage the validator computes from the tracked counters
ReportedDeviates(config, metadata, given) ==
    CASE config.mode = "questions" ->
             deviates(IF metadata.complete /\ metadata.number > given.questions_answered
                      THEN metadata.number ELSE given.questions_answered,
                      config.total_questions, metadata.progressPercent)
      [] config.mode = "phases" ->
             deviates(IF metadata.complete /\ metadata.number = given.current_phase
                      THEN Min(metadata.number + 1, config.phases)
                      ELSE given.current_phase,
                      config.phases, metadata.progressPercent)
      [] config.mode = "milestones" ->
             deviates(Cardinality(given.achieved_milestones
                          \cup (IF metadata.complete /\ metadata.id \in config.milestones
                                THEN {metadata.id} ELSE {})),
                      Cardinality(config.milestones), metadata.progressPercent)
      [] OTHER ->
             deviates(Cardinality(given.activated_triggers
                          \cup (IF metadata.complete /\ metadata.id \in config.triggers
                                THEN {metadata.id} ELSE {})),
                      Cardinality(config.triggers), metadata.progressPercent)

\* the reported number or identifier lies outside the configured set
ReportedOutside(config, metadata) ==
    CASE config.mode = "questions" ->
             metadata.number < 1 \/ metadata.number > config.total_questions
      [] config.mode = "phases" ->
             metadata.number < 1 \/ metadata.number > config.phases
      [] config.mode = "milestones" ->
             metadata.id # NoId /\ metadata.id \notin config.milestones
      [] OTHER ->
             metadata.id # NoId /\ metadata.id \notin config.triggers

ReportedDuplicate(config, metadata) ==
    config.mode \in {"milestones", "triggers"} /\ has_duplicates(metadata.ids)

\* C25: in each of the four modes the progress validator rejects metadata
\* whose progressPercent differs from the computed percentage by more than
\* one point, whose question or phase number or milestone or trigger
\* identifier lies outside the configured set, or whose achieved or
\* activated list holds a duplicate; every rejection returns the progress
\* state it was given.
C25_ProgressRejected ==
    progress.calls > 0 =>
        /\ (\/ ReportedOutside(progress.config, progress.metadata)
            \/ ReportedDuplicate(progress.config, progress.metadata)
            \/ ReportedDeviates(progress.config, progress.metadata, progress.given))
               => (~progress.result.raises /\ ~progress.result.is_valid)
        /\ ~progress.result.is_valid => progress.result.state = progress.given

\* the same for metadata whose reported identifier is not the empty string
C25_NonEmptyIdentifiers ==
    progress.metadata.id # "" => C25_ProgressRejected

\* the progress fields of an embedded block as the validator reads them:
\* questionNumber, totalQuestions and progressPercent
BlockMetadata(gm_content) ==
    LET reported == MetaObject(meta_raw_of(gm_content)[1]).progress
    IN  Metadata(reported[1], FALSE, NoId, <<>>, reported[3])

\* the applied narration embeds a block that reports progress
ProgressNarrated ==
    /\ last.op = "GM_NARRATED"
    /\ last.outcome = "ok"
    /\ has_markers(last.events[1].data.content)
    /\ json_loads(meta_raw_of(last.events[1].data.content)) = "object"
    /\ MetaObject(meta_raw_of(last.events[1].data.content)[1]).progress # <<>>

\* C26: the progress validator guards the GM_NARRATED mapping.  Whatever
\* tracking mode the challenge configures, a block the validator rejects
\* does not change the progress held in current_ui_data.
C26_ProgressGuarded ==
    ProgressNarrated =>
        \A config \in ProgressConfigs :
            ~validate_progress_metadata(config,
                 BlockMetadata(last.events[1].data.content),
                 EmptyProgressState).is_valid
            => last.post.current_ui_data.progress
                   = last.pre.current_ui_data.progress

\* C27: applying SESSION_STARTED sets status active, current_step_index 0
\* and current_ui_mode to the type of step 0, returns exactly one derived
\* event, of type STEP_ENTERED, and a GM_NARRATE task for step 0 exactly
\* when step 0 has auto_narrate; scores and transcript are unchanged.
C27_SessionStarted ==
    \A result \in {apply_event(est, Event("SESSION_STARTED", now, now, NoData), now)} :
        /\ result.ok
        /\ result.new_state.status = "active"
        /\ result.new_state.current_step_index = 0
        /\ result.new_state.current_ui_mode = steps[1].step_type
        /\ Len(result.derived_events) = 1
        /\ result.derived_events[1].event_type = "STEP_ENTERED"
        /\ result.llm_tasks = IF steps[1].auto_narrate
                              THEN << Task("GM_NARRATE", 0) >> ELSE <<>>
        /\ result.new_state.total_score = est.total_score
        /\ result.new_state.step_scores = est.step_scores
        /\ result.new_state.messages = est.messages

\* C27 witness: SESSION_STARTED was applied for a challenge whose step 0
\* narrates on entry, on a state that held a transcript
C27_Witness ==
    /\ last.op = "SESSION_STARTED"
    /\ last.outcome = "ok"
    /\ steps[1].auto_narrate
    /\ last.pre.messages # <<>>
    /\ last.post.status = "active"

\* the engine's own verdict on an evaluation of the current step: the
\* clamped score meets the step's threshold (defined for steps worth points)
EnginePasses(state, raw_score) ==
    LET step == CurrentStep(state) IN
    /\ step.points_possible # 0
    /\ meets_threshold(clamp_score(raw_score, step.points_possible),
                       step.points_possible, step.passing_threshold)

\* C28: applying LEM_EVALUATED decides progression from the engine's own
\* clamped score and threshold, not from the event's passed field.  On a
\* pass the run moves to the next step and takes its type as ui mode, or,
\* on the last step, becomes completed; otherwise current_step_index and
\* status are unchanged.
C28_EngineDecidesProgress ==
    \A ev \in Evaluations :
        \A result \in {apply_event(est, LemEvaluated(ev[1], ev[2], now), now)} :
            IF EnginePasses(est, ev[1])
            THEN /\ result.ok
                 /\ IF est.current_step_index < total_steps - 1
                    THEN /\ result.new_state.current_step_index
                               = est.current_step_index + 1
                         /\ result.new_state.current_ui_mode
                               = steps[est.current_step_index + 2].step_type
                         /\ result.new_state.status = est.status
                    ELSE /\ result.new_state.status = "completed"
                         /\ result.new_state.current_step_index
                               = est.current_step_index
            ELSE result.ok =>
                     /\ result.new_state.current_step_index = est.current_step_index
                     /\ result.new_state.status = est.status

\* C28 witness: an evaluation whose passed field was false was applied and
\* the run moved on, and one whose field was true could be refused
C28_Witness ==
    /\ last.op = "LEM_EVALUATED"
    /\ last.outcome = "ok"
    /\ ~last.events[1].data.passed
    /\ last.post.current_step_index = last.pre.current_step_index + 1
    /\ \E ev \in Evaluations : ev[2] /\ ~EnginePasses(est, ev[1])

\* C29: applying USER_REQUESTED_HINT increases hints_used by exactly one and
\* returns exactly one TEACH_HINTS task for the current step; it leaves
\* current_step_index, status, total_score, step_scores and the transcript
\* unchanged and returns no derived events.
C29_HintRequest ==
    \A result \in {apply_event(est, Event("USER_REQUESTED_HINT", now, now, NoData),
                               now)} :
        /\ result.ok
        /\ result.new_state.hints_used = est.hints_used + 1
        /\ result.llm_tasks = << Task("TEACH_HINTS", est.current_step_index) >>
        /\ result.derived_events = <<>>
        /\ result.new_state.current_step_index = est.current_step_index
        /\ result.new_state.status = est.status
        /\ result.new_state.total_score = est.total_score
        /\ result.new_state.step_scores = est.step_scores
        /\ result.new_state.messages = est.messages

\* C29 witness: a hint was requested in the middle of a run, on a step past
\* the first, with a score and a transcript to keep
C29_Witness ==
    /\ last.op = "USER_REQUESTED_HINT"
    /\ last.outcome = "ok"
    /\ last.pre.status = "active"
    /\ last.pre.current_step_index > 0
    /\ last.pre.total_score > 0
    /\ Len(last.pre.messages) > 0
    /\ last.post.hints_used = last.pre.hints_used + 1

\* the event types that only mark the log
MarkerTypes == {"SESSION_CREATED", "STEP_ENTERED", "SCORE_AWARDED"}

\* the sequences of at most two marker rows
MarkerRows(t) ==
    LET one == {GameEvent("marker", type, NoData, t, t) : type \in MarkerTypes}
    IN  {<<>>} \cup {<<a>> : a \in one} \cup {<<a, b>> : a \in one, b \in one}

\* C30: SESSION_CREATED, STEP_ENTERED and SCORE_AWARDED are replay no-ops:
\* at any point of a run, applying one returns the input state with no
\* derived events and no LLM tasks, and folding any of them, repeated or
\* mixed, into the state leaves the folded state as it was.
C30_MarkersAreNoOps ==
    /\ \A type \in MarkerTypes :
           \A result \in {apply_event(est, Event(type, now, now, NoData), now)} :
               /\ result.ok
               /\ result.new_state = est
               /\ result.derived_events = <<>>
               /\ result.llm_tasks = <<>>
    /\ \A rows \in MarkerRows(now) :
           replay(est, rows, now) = [ok |-> TRUE, state |-> est]

\* C30 witness: a marker was applied in the middle of a run that has a
\* score and a transcript
C30_Witness ==
    /\ last.op \in MarkerTypes
    /\ last.outcome = "ok"
    /\ last.pre.status = "active"
    /\ Len(last.pre.step_scores) > 0
    /\ Len(last.pre.messages) > 0
    /\ last.post = last.pre

\* C32: hydration of a log written by completed requests never raises,
\* whatever text the LLM returned.
C32_HydrationNeverRaises ==
    \A hyd \in hydrate_state(log, snapshots, now) : hyd.ok

\* a persisted narration whose metadata block is valid JSON but not an object
NonObjectPersisted ==
    \E r \in log : /\ r.event_type = "GM_NARRATED"
                    /\ \E i \in 1..Len(r.event_data.content) :
                           r.event_data.content[i] \in JsonNonObjects

\* the rest of C32: a log that holds no such narration hydrates without
\* raising
C32_OtherTextsHydrate ==
    ~NonObjectPersisted => \A hyd \in hydrate_state(log, snapshots, now) : hyd.ok

\* the replay loop raises on the tables as they are, whichever rows the
\* queries return
ReplayRaises ==
    \A start \in hydrate_starts(snapshots) :
        \A events \in get_events_since(log, start.since_sequence) :
            ~replay(start.state, events, now).ok

\* C31: if applying an event raises during hydration, the whole request
\* aborts: it does not go on with the partially folded state, and it
\* appends no event and no snapshot (the session row is not written either).
C31_HydrationFailureAborts ==
    [][ReplayRaises =>
           /\ last'.outcome # "ok"
           /\ last'.events = <<>>
           /\ log' = log
           /\ snapshots' = snapshots
           /\ session' = session]_vars

\* C31 witness: an attempt, continue or hint request was made on a log whose
\* replay raises, and it ended in an error
C31_Witness ==
    /\ ReplayRaises
    /\ last.op \in {"attempt", "continue", "hint"}
    /\ last.outcome = "error"
    /\ session.status = "active"
    /\ Cardinality(log) > 2

\* the engine state of the session, as hydration returns it, is completed
EngineCompleted ==
    \E hyd \in hydrate_state(log, snapshots, now) :
        hyd.ok /\ hyd.state.status = "completed"

\* what must not change once the run is completed
FinalScore(hyd) ==
    <<hyd.state.total_score, hyd.state.step_scores, hyd.state.current_step_index>>

\* C33: completed is terminal: once the session's engine state has status
\* completed, every further attempt, continue or hint request is rejected
\* without appending an event, and total_score, step_scores and
\* current_step_index never change again.
C33_CompletedIsTerminal ==
    [][EngineCompleted =>
           /\ last'.outcome = "rejected"
           /\ log' = log
           /\ {FinalScore(hyd) : hyd \in hydrate_state(log', snapshots', now')}
                  = {FinalScore(hyd) : hyd \in hydrate_state(log, snapshots, now)}]_vars

\* the rest of C33: once the GameSession row has status completed, every
\* request is rejected and neither the log nor the snapshots change
C33_CompletedRowIsTerminal ==
    [][session.status = "completed" =>
           /\ last'.outcome = "rejected"
           /\ log' = log
           /\ snapshots' = snapshots
           /\ session' = session]_vars

\* the session of the state has been started
Started(state) == state.status # "created"

\* C34: current_step_index never decreases: for every event applied to a
\* state in which the session has been started, the new index is at least
\* the old one and at most one more.
C34_IndexMonotone ==
    [][Started(est) =>
           /\ est'.current_step_index >= est.current_step_index
           /\ est'.current_step_index <= est.current_step_index + 1]_vars

\* the rest of C34: every event other than a repeated SESSION_STARTED keeps
\* the index or raises it by one
C34_MonotoneButRestart ==
    [][Started(est) /\ last'.op # "SESSION_STARTED" =>
           /\ est'.current_step_index >= est.current_step_index
           /\ est'.current_step_index <= est.current_step_index + 1]_vars

\* the same over the requests of a session: the state they hand on never
\* has a lower index than the state they hydrated
C34_RequestsMonotone ==
    /\ last.post.current_step_index >= last.pre.current_step_index
    /\ last.post.current_step_index <= last.pre.current_step_index + 1

\* the index names a step of the challenge
IndexInRange(state) ==
    /\ 0 <= state.current_step_index
    /\ state.current_step_index <= total_steps - 1

\* C35: in every reachable state 0 <= current_step_index <= total_steps - 1,
\* so looking up the current step never goes out of range; no event applied
\* at the last step (a pass, a continue) increments the index.
C35_IndexInRange ==
    /\ IndexInRange(est)
    /\ \A event \in EngineEvents(now) :
           \A result \in {apply_event(est, event, now)} :
               result.ok =>
                   /\ IndexInRange(result.new_state)
                   /\ est.current_step_index = total_steps - 1
                          => result.new_state.current_step_index
                                 <= est.current_step_index

\* C35 witness: on the last step of a challenge of several steps a continue
\* was applied, and a passing answer can be applied, and the index stayed
C35_Witness ==
    /\ total_steps > 1
    /\ last.op = "USER_CONTINUED"
    /\ last.outcome = "ok"
    /\ last.pre.current_step_index = total_steps - 1
    /\ last.post.current_step_index = total_steps - 1
    /\ \E event \in EngineEvents(now) :
           /\ event.event_type \in {"USER_SUBMITTED_ANSWER", "LEM_EVALUATED"}
           /\ \E result \in {apply_event(est, event, now)} :
                  result.ok /\ result.new_state.status = "completed"

\* the challenge is not a simple challenge
Advanced == \A i \in 1..total_steps : ~steps[i].simple

\* current_ui_mode mirrors the type of the current step
ModeMirrorsStep(state) ==
    state.status = "active" => state.current_ui_mode = CurrentStep(state).step_type

\* C36: for a challenge that is not simple, in every reachable state with
\* status active current_ui_mode equals the step_type of the step at
\* current_step_index; narration and hint text cannot switch the mode.
C36_ModeMirrorsStep ==
    Advanced =>
        \A hyd \in hydrate_state(log, snapshots, now) :
            hyd.ok => ModeMirrorsStep(hyd.state)

\* a persisted narration or hint whose text holds a metadata block that
\* parses to an object
ObjectBlockPersisted ==
    \E r \in log : /\ r.event_type = "GM_NARRATED"
                    /\ \E i \in 1..Len(r.event_data.content) :
                           r.event_data.content[i] \in JsonObjects

\* the rest of C36: as long as no narration or hint carried such a block,
\* the mode of an advanced challenge mirrors the current step
C36_MirrorsWithoutBlocks ==
    Advanced /\ ~ObjectBlockPersisted =>
        \A hyd \in hydrate_state(log, snapshots, now) :
            hyd.ok => ModeMirrorsStep(hyd.state)

\* the current step of the state has a type outside the five handled ones
OnUnhandledStep(state) ==
    CurrentStep(state).step_type
        \notin {"MCQ_SINGLE", "MCQ_MULTI", "TRUE_FALSE", "CHAT", "CONTINUE_GATE"}

\* every hydration of the tables succeeds and stands on such a step
HydratesOnUnhandledStep ==
    \A hyd \in hydrate_state(log, snapshots, now) :
        hyd.ok /\ OnUnhandledStep(hyd.state)

\* C37: a submission on a step whose type has no handler fails with a
\* handler-lookup error in the engine (the input state is what the caller
\* keeps) and at the request boundary (the request ends in an error and
\* appends no event).
C37_UnhandledStepFails ==
    /\ [](\A hyd \in hydrate_state(log, snapshots, now) :
             hyd.ok /\ OnUnhandledStep(hyd.state) =>
                 \A answer \in Answers :
                     \A result \in {apply_event(hyd.state,
                                         UserEvent("USER_SUBMITTED_ANSWER", hyd,
                                                   answer, now), now)} :
                         /\ ~result.ok
                         /\ result.error = "ValueError: No handler found for step type"
                         /\ result.new_state = hyd.state)
    /\ [][HydratesOnUnhandledStep /\ last'.op = "attempt" /\ session.status = "active" =>
              /\ last'.outcome = "error"
              /\ last'.events = <<>>
              /\ log' = log
              /\ snapshots' = snapshots
              /\ session' = session]_vars

\* C37 witness: an attempt was posted while the session stood on a
\* FILE_UPLOAD step, and it failed
C37_Witness ==
    /\ HydratesOnUnhandledStep
    /\ session.status = "active"
    /\ last.op = "attempt"
    /\ last.outcome = "error"
    /\ last.pre.current_step_index > 0
    /\ steps[last.pre.current_step_index + 1].step_type = "FILE_UPLOAD"

\* C38: apply_event never mutates its input: for every event type the state
\* passed in, read after the call, equals what it was before the call,
\* whether the call returns or raises.
C38_InputNotMutated ==
    \A event \in EngineEvents(now) : input_after(est, event, now) = est

\* C38 witness: a call has returned a state with a longer transcript and a
\* new score entry, and from here one event returns and another raises
\* after the handler has written
C38_Witness ==
    /\ last.outcome = "ok"
    /\ Len(last.post.messages) > Len(last.pre.messages)
    /\ Len(last.post.step_scores) > Len(last.pre.step_scores)
    /\ \E event \in EngineEvents(now) :
           /\ ~apply_event(est, event, now).ok
           /\ working_state(est, event, now) # est

\* text[a..b] is a complete object: it opens at a and b is the brace that
\* closes it
IsObject(text, a, b) ==
    /\ a < b
    /\ text[a] = "{"
    /\ scan_braces(SubSeq(text, a, b), 1, 0) = b - a + 1

\* the complete objects of the text, as pairs of positions
Objects(text) ==
    {ab \in (1..Len(text)) \X (1..Len(text)) : IsObject(text, ab[1], ab[2])}

\* the earliest of them
FirstObject(text) ==
    CHOOSE ab \in Objects(text) : \A o \in Objects(text) : ab[1] <= o[1]

\* C39: _extract_json returns the first complete brace-balanced object of
\* the response: if the text contains a complete object it returns the
\* earliest one, and it raises only when the text contains none.
C39_FirstCompleteObject ==
    extraction.calls = 1 =>
        IF Objects(extraction.text) # {}
        THEN /\ extraction.result.ok
             /\ extraction.result.value
                    = SubSeq(extraction.text, FirstObject(extraction.text)[1],
                             FirstObject(extraction.text)[2])
        ELSE ~extraction.result.ok

\* the rest of C39: the function returns the object that the first opening
\* brace of the text opens, and raises exactly when there is no opening
\* brace or the first one is never closed
C39_ObjectOfFirstBrace ==
    extraction.calls = 1 =>
        LET text == extraction.text
            start == find(text, "{")
            closed == {b \in 1..Len(text) : start # 0 /\ IsObject(text, start, b)}
        IN  IF closed # {}
            THEN /\ extraction.result.ok
                 /\ \A b \in closed :
                        extraction.result.value = SubSeq(text, start, b)
            ELSE ~extraction.result.ok

====
